---- MODULE Spec2Model ----
(***************************************************************************)
(* The book execution orchestrators of ai-book-generator:                  *)
(*   book_generator/execute.py  (section mode: chapter intro + sections)   *)
(*   chapter_based/execute.py   (chapter mode: back cover, part intros,    *)
(*                               whole chapters)                           *)
(* Text is a sequence of tokens (strings); a file system is a function     *)
(* from paths to file contents.                                            *)
(***************************************************************************)
EXTENDS Integers, Sequences, FiniteSets, TLC

(* ------------------------------ bounds -------------------------------- *)

\* The most parts of a plan.
MaxParts == 2
\* The most content units (files to produce) of a plan, the back cover aside.
MaxUnits == 4
\* The longest done / todo list handed to show_progress on its own.
MaxItems == 2
\* The most markdown files of a book handed to the audio path.
MaxFiles == 3
\* The most worker threads of the audio path's pool.
MaxThreads == 2
\* The most chunks of a streamed answer of the backend.
MaxChunks == 3
\* The most runs of WavToMp3Converter.convert_book on the same buckets.
MaxRuns == 2

(* ------------------------------- text --------------------------------- *)

Digit == <<"0", "1", "2", "3", "4", "5", "6", "7", "8", "9">>

\* str(n) of a non-negative integer, as its decimal digits.
RECURSIVE Str(_)
Str(n) == IF n < 10 THEN <<Digit[n + 1]>> ELSE Str(n \div 10) \o <<Digit[(n % 10) + 1]>>

\* f"{n:02d}": at least two digits, zero padded.
Pad2(n) == IF n < 10 THEN <<"0">> \o Str(n) ELSE Str(n)

\* sep.join(lines)
RECURSIVE Join(_, _)
Join(lines, sep) ==
    IF Len(lines) = 0 THEN <<>>
    ELSE IF Len(lines) = 1 THEN lines[1]
    ELSE lines[1] \o sep \o Join(Tail(lines), sep)

Whitespace == {" ", "\n", "\t"}

\* str.strip(): leading and trailing whitespace removed.
RECURSIVE LStrip(_)
LStrip(s) == IF Len(s) > 0 /\ s[1] \in Whitespace THEN LStrip(Tail(s)) ELSE s
RECURSIVE RStrip(_)
RStrip(s) ==
    IF Len(s) > 0 /\ s[Len(s)] \in Whitespace THEN RStrip(SubSeq(s, 1, Len(s) - 1)) ELSE s
Strip(s) == RStrip(LStrip(s))

\* whether text s occurs in text t
Contains(t, s) == \E k \in 0..(Len(t) - Len(s)) : SubSeq(t, k + 1, k + Len(s)) = s

(* ------------------------------ the plan ------------------------------ *)

\* The two executors: book_generator (section mode), chapter_based (chapter mode).
Modes == {"section", "chapter"}

\* Names are plan data; here each carries the entity's place in the plan tree.
PartName(p) == <<"P">> \o Str(p)
ChapterName(p, c) == <<"Ch">> \o Str(p) \o <<".">> \o Str(c)
SectionName(p, c, s) == <<"S">> \o Str(p) \o <<".">> \o Str(c) \o <<".">> \o Str(s)

BookSectionPlan(p, c, s) ==
    [name |-> SectionName(p, c, s), bullet_points |-> << <<"b">> \o Str(s) >>]

\* A chapter of a section-mode plan with nsec sections.
BookChapterPlan(p, c, nsec) ==
    [name |-> ChapterName(p, c),
     sections |-> [s \in 1..nsec |-> BookSectionPlan(p, c, s)]]

\* A chapter of a chapter-mode plan.
ChapterPlan(p, c) ==
    [name |-> ChapterName(p, c), bullet_points |-> << <<"b1">>, <<"b2">> >>]

\* shape: one sequence per part, holding one number per chapter (its number of
\* sections in section mode; unused in chapter mode).
BookPartPlan(m, shape, p) ==
    [name |-> PartName(p),
     introduction |-> <<"intro of ">> \o PartName(p),
     chapters |-> [c \in 1..Len(shape[p]) |->
                      IF m = "section" THEN BookChapterPlan(p, c, shape[p][c])
                      ELSE ChapterPlan(p, c)]]

BookPlan(m, shape, lang) ==
    [book_language |-> lang,
     name |-> <<"Book">>,
     back_cover_description |-> <<"A", " ", "book.">>,
     parts |-> [p \in 1..Len(shape) |-> BookPartPlan(m, shape, p)]]

Languages == {"ru", "en", "de"}

RECURSIVE SumSeq(_)
SumSeq(s) == IF Len(s) = 0 THEN 0 ELSE Head(s) + SumSeq(Tail(s))

\* Chapter lists of a section-mode part that produce at most budget files.
RECURSIVE SectionChapterLists(_)
SectionChapterLists(budget) ==
    {<<>>} \cup
    UNION {{<<n>> \o rest : rest \in SectionChapterLists(budget - 1 - n)} :
             n \in 0..(budget - 1)}

\* Chapter lists of a chapter-mode part that produce at most budget files.
ChapterChapterLists(budget) ==
    {[c \in 1..k |-> 0] : k \in 0..(IF budget < 0 THEN 0 ELSE budget)}

\* Plan shapes of at most nparts parts producing at most budget files.
RECURSIVE SectionShapes(_, _)
SectionShapes(nparts, budget) ==
    {<<>>} \cup
    (IF nparts = 0 THEN {}
     ELSE UNION {{<<cl>> \o rest :
                    rest \in SectionShapes(nparts - 1, budget - Len(cl) - SumSeq(cl))} :
                  cl \in SectionChapterLists(budget)})

RECURSIVE ChapterShapes(_, _)
ChapterShapes(nparts, budget) ==
    {<<>>} \cup
    (IF nparts = 0 \/ budget < 1 THEN {}
     ELSE UNION {{<<cl>> \o rest :
                    rest \in ChapterShapes(nparts - 1, budget - 1 - Len(cl))} :
                  cl \in ChapterChapterLists(budget - 1)})

\* The plans of the model: every shape within the bounds.
BookPlans(m) ==
    IF m = "section"
    THEN {BookPlan(m, sh, "en") : sh \in SectionShapes(MaxParts, MaxUnits)}
    ELSE {BookPlan(m, sh, lang) :
            sh \in ChapterShapes(MaxParts, MaxUnits), lang \in Languages}

(* --------------------------- show_progress ---------------------------- *)

HereMarker == <<" ", "<--", " ", "YOU'RE", " ", "CURRENTLY", " ", "HERE">>

DoneLine(label) == <<"[x]", " ">> \o label
CurrentLine(label) == <<"[ ]", " ">> \o label \o HereMarker
TodoLine(label) == <<"[ ]", " ">> \o label

\* Mutant: the todo items are listed last to first.
progress_builder_todo_reversed(done, current, todo) ==
    [k \in 1..Len(done) |-> DoneLine(done[k])]
    \o <<CurrentLine(current)>>
    \o [k \in 1..Len(todo) |-> TodoLine(todo[Len(todo) + 1 - k])]

\* progress_builder of show_progress: the lines before they are joined. done,
\* current and todo hold name_function(c) of each item c.
progress_builder(done, current, todo) ==
    [k \in 1..Len(done) |-> DoneLine(done[k])]
    \o <<CurrentLine(current)>>
    \o [k \in 1..Len(todo) |-> TodoLine(todo[k])]

show_progress(done, current, todo) ==
    Join(progress_builder(done, current, todo), <<"\n">>)

(* ------------------------ _build_chapter_specs ------------------------ *)

\* Mutant: chapter_idx starts again at 0 in every part.
ChapterNumberPerPart(chapter_idx, k) == k

\* chapter_idx after k more chapters: one counter for the whole book.
ChapterNumberAfter(chapter_idx, k) == chapter_idx + k

\* Mutant: part_idx is only advanced for a part that has chapters.
PartNumberSkippingEmpty(part_idx, part) ==
    IF Len(part.chapters) = 0 THEN part_idx ELSE part_idx + 1

\* part_idx += 1, at the top of the loop over the parts, for every part.
PartNumberNext(part_idx, part) == part_idx + 1

ChapterSpecs(m, part, part_number, chapter, chapter_number) ==
    IF m = "section"
    THEN [part |-> part, part_number |-> part_number, chapter |-> chapter,
          chapter_number |-> chapter_number, sections |-> chapter.sections]
    ELSE [part |-> part, part_number |-> part_number, chapter |-> chapter,
          chapter_number |-> chapter_number]

\* The loop over parts[from..], entered with the two counters' values.
RECURSIVE BuildSpecsFrom(_, _, _, _)
BuildSpecsFrom(m, parts, part_idx, chapter_idx) ==
    IF Len(parts) = 0 THEN <<>>
    ELSE LET part == Head(parts)
             pidx == PartNumberNext(part_idx, part)
             n    == Len(part.chapters)
         IN  [k \in 1..n |->
                ChapterSpecs(m, part, pidx, part.chapters[k],
                             ChapterNumberAfter(chapter_idx, k))]
             \o BuildSpecsFrom(m, Tail(parts), pidx, ChapterNumberAfter(chapter_idx, n))

build_chapter_specs(m, book_plan) == BuildSpecsFrom(m, book_plan.parts, 0, 0)

(* ------------------- content units and FileSystemWriter ---------------- *)

\* A content unit by kind and position key.
Unit(kind, part_number, chapter_number, section_number) ==
    [kind |-> kind, part_number |-> part_number,
     chapter_number |-> chapter_number, section_number |-> section_number]

NoUnit == Unit("none", 0, 0, 0)

\* root_folder / f"part_{part_number:02d}"
PartFolder(part_number) == <<"part_">> \o Pad2(part_number)

\* book_generator FileSystemWriter._get_intro_path
get_intro_path(part_number, chapter_number) ==
    PartFolder(part_number) \o <<"/">> \o Pad2(chapter_number) \o <<"_00_intro.md">>

\* Mutant: the section number is left out of the file name.
get_section_path_no_number(part_number, chapter_number, section_number) ==
    PartFolder(part_number) \o <<"/">> \o Pad2(chapter_number) \o <<"_section.md">>

\* book_generator FileSystemWriter._get_section_path
get_section_path(part_number, chapter_number, section_number) ==
    PartFolder(part_number) \o <<"/">> \o Pad2(chapter_number) \o <<"_">>
        \o Pad2(section_number) \o <<"_section.md">>

\* chapter_based FileSystemWriter._get_chapter_path
get_chapter_path(part_number, chapter_number) ==
    PartFolder(part_number) \o <<"/">> \o Pad2(chapter_number) \o <<"_chapter.md">>

\* chapter_based FileSystemWriter._get_part_intro_path
get_part_intro_path(part_number) ==
    PartFolder(part_number) \o <<"/">> \o <<"_part_">> \o Pad2(part_number)
        \o <<"_intro.md">>

\* chapter_based FileSystemWriter._get_back_cover_path
get_back_cover_path == <<"back_cover.md">>

\* The path the writer keeps unit u at.
PathOf(u) ==
    CASE u.kind = "intro"      -> get_intro_path(u.part_number, u.chapter_number)
      [] u.kind = "section"    -> get_section_path(u.part_number, u.chapter_number,
                                                   u.section_number)
      [] u.kind = "chapter"    -> get_chapter_path(u.part_number, u.chapter_number)
      [] u.kind = "part_intro" -> get_part_intro_path(u.part_number)
      [] u.kind = "back_cover" -> get_back_cover_path

\* A file system under root_folder: its folders and its files' contents.
\* part_folder.mkdir(exist_ok=True)
Mkdir(filesystem, folder) == [filesystem EXCEPT !.dirs = @ \cup {folder}]

\* Path.exists()
Exists(filesystem, path) == path \in DOMAIN filesystem.files

\* Path.write_text(content): the file is created or truncated, then holds content.
WriteText(filesystem, path, content) ==
    [filesystem EXCEPT !.files =
        [q \in (DOMAIN filesystem.files) \cup {path} |->
            IF q = path THEN content ELSE filesystem.files[q]]]

\* root_folder itself, as a path under root_folder.
Root == <<>>

\* part_folder.mkdir(exist_ok=True) raises FileNotFoundError when the parent
\* of the folder, root_folder, is missing: parents=True is not passed.
MkdirRaises(filesystem, folder) == Root \notin filesystem.dirs

\* Path.write_text raises FileNotFoundError when the folder the file is to
\* be in is missing.
WriteTextRaises(filesystem, folder) == folder \notin filesystem.dirs

\* Mutant: section_exists looks at the chapter's intro path.
unit_exists_by_intro_path(filesystem, u) ==
    Exists(filesystem,
           PathOf(IF u.kind = "section"
                  THEN Unit("intro", u.part_number, u.chapter_number, 0) ELSE u))

\* intro_exists / section_exists / chapter_exists / part_intro_exists /
\* back_cover_exists
unit_exists(filesystem, u) == Exists(filesystem, PathOf(u))

\* Mutant: a chapter introduction is written into the next part's folder.
save_unit_misplaced(filesystem, u, content) ==
    IF u.kind = "intro"
    THEN WriteText(Mkdir(filesystem, PartFolder(u.part_number + 1)),
                   get_intro_path(u.part_number + 1, u.chapter_number), content)
    ELSE IF u.kind = "back_cover"
    THEN WriteText(filesystem, PathOf(u), content)
    ELSE WriteText(Mkdir(filesystem, PartFolder(u.part_number)), PathOf(u), content)

\* save_intro / save_section / save_chapter / save_part_intro / save_back_cover
save_unit(filesystem, u, content) ==
    IF u.kind = "back_cover"
    THEN WriteText(filesystem, PathOf(u), content)
    ELSE WriteText(Mkdir(filesystem, PartFolder(u.part_number)), PathOf(u), content)

\* Whether save_<kind> raises: save_back_cover writes straight into
\* root_folder, the others make the part folder first and write into it.
save_unit_raises(filesystem, u) ==
    IF u.kind = "back_cover"
    THEN WriteTextRaises(filesystem, Root)
    ELSE \/ MkdirRaises(filesystem, PartFolder(u.part_number))
         \/ WriteTextRaises(Mkdir(filesystem, PartFolder(u.part_number)),
                            PartFolder(u.part_number))

(* ------------------------------ the backend ---------------------------- *)

\* The texts the backend answers with.
Responses == { <<"Generated", " ", "content">> }

\* An answer with whitespace around the text, and a blank answer.
PaddedResponses ==
    { <<"\n", "Generated", " ", "content", "\n", " ">>,
      <<" ", "\n">> }

\* usage_metadata of an answer: prompt, candidates and thoughts token counts.
Usage(p, c, t) ==
    [prompt_token_count |-> p, candidates_token_count |-> c, thoughts_token_count |-> t]

\* The usage the backend reports in a run of the executor.
Usages == { Usage(10, 10, 0) }

\* Usages of both pricing tiers.
TieredUsages == { Usage(10, 10, 0), Usage(200001, 10, 5) }

\* Mutant: a prompt of exactly 200000 tokens is billed at the long-context rates.
calculate_gemini_3_cost_from_threshold(usage) ==
    LET prompt_tokens == usage.prompt_token_count
        long == prompt_tokens >= 200000
        input_rate  == IF long THEN 4 ELSE 2
        output_rate == IF long THEN 18 ELSE 12
        total_output_tokens == usage.candidates_token_count + usage.thoughts_token_count
        input_cost  == prompt_tokens * input_rate
        output_cost == total_output_tokens * output_rate
    IN  [total_cost |-> input_cost + output_cost,
         input_cost |-> input_cost,
         output_cost |-> output_cost,
         prompt_tokens |-> prompt_tokens,
         output_tokens |-> total_output_tokens,
         tier_name |-> IF long THEN "Long Context (>200k)" ELSE "Standard (<200k)"]

\* calculate_gemini_3_cost: the CostReport, its costs in millionths of a dollar
\* ((tokens / 1_000_000) * rate dollars is tokens * rate millionths).
calculate_gemini_3_cost(usage) ==
    LET prompt_tokens == usage.prompt_token_count
        long == prompt_tokens > 200000
        input_rate  == IF long THEN 4 ELSE 2
        output_rate == IF long THEN 18 ELSE 12
        total_output_tokens == usage.candidates_token_count + usage.thoughts_token_count
        input_cost  == prompt_tokens * input_rate
        output_cost == total_output_tokens * output_rate
    IN  [total_cost |-> input_cost + output_cost,
         input_cost |-> input_cost,
         output_cost |-> output_cost,
         prompt_tokens |-> prompt_tokens,
         output_tokens |-> total_output_tokens,
         tier_name |-> IF long THEN "Long Context (>200k)" ELSE "Standard (<200k)"]

\* Mutant: the tracker keeps the cost of the last call only.
update_overwrites(total, usage) == calculate_gemini_3_cost(usage).total_cost

\* CostTracker.update: self.total_cost += report.total_cost
update(total, usage) == total + calculate_gemini_3_cost(usage).total_cost

(* ------------------------------- prompts ------------------------------- *)

\* yaml.safe_dump(chapter.model_dump(), sort_keys=False) of a section-mode chapter
YamlSection(section) ==
    <<"-", " ", "name:", " ">> \o section.name \o <<"\n">>
    \o <<"  ", "bullet_points:", "\n">>
    \o Join([k \in 1..Len(section.bullet_points) |->
                <<"  ", "-", " ">> \o section.bullet_points[k] \o <<"\n">>], <<>>)

chapter_overview(chapter) ==
    <<"name:", " ">> \o chapter.name \o <<"\n">>
    \o (IF Len(chapter.sections) = 0 THEN <<"sections:", " ", "[]", "\n">>
        ELSE <<"sections:", "\n">>
             \o Join([k \in 1..Len(chapter.sections) |-> YamlSection(chapter.sections[k])],
                     <<>>))

\* section_prompt_template.format(...)
section_prompt(chapter_name, section_name, outline, chapter_progress, book_progress) ==
    <<"The chapter name:", " ">> \o chapter_name \o <<"\n", "\n">>
    \o <<"The section name:", " ">> \o section_name \o <<"\n", "\n">>
    \o <<"Outline:", " ", "\n", "\n">> \o outline \o <<"\n", "\n">>
    \o <<"Current chapter progress:", "\n", "\n">> \o chapter_progress \o <<"\n", "\n">>
    \o <<"Current book progress:", "\n", "\n">> \o book_progress

\* Mutant: the chapter prompt is sent without the book progress.
chapter_prompt_no_progress(book_title, chapter_name, chapter_outline, book_progress) ==
    <<"The book title:", " ">> \o book_title \o <<"\n", "\n">>
    \o <<"The chapter name:", " ">> \o chapter_name \o <<"\n", "\n">>
    \o <<"Chapter outline (bullet points to cover):", "\n", "\n">>
    \o chapter_outline

\* chapter_prompt_template.format(...)
chapter_prompt(book_title, chapter_name, chapter_outline, book_progress) ==
    <<"The book title:", " ">> \o book_title \o <<"\n", "\n">>
    \o <<"The chapter name:", " ">> \o chapter_name \o <<"\n", "\n">>
    \o <<"Chapter outline (bullet points to cover):", "\n", "\n">>
    \o chapter_outline \o <<"\n", "\n">>
    \o <<"Current book progress:", "\n", "\n">> \o book_progress

\* name_function of the book progress (lambda c: c.chapter.name) over a list
ChapterNames(specs) == [k \in 1..Len(specs) |-> specs[k].chapter.name]

\* name_function of the chapter progress (lambda c: c.name) over a list
ItemNames(items) == [k \in 1..Len(items) |-> items[k].name]

\* book_progress of chapter i: show_progress(specs[:i], specs[i], specs[i+1:])
book_progress_of(specs, i) ==
    show_progress(ChapterNames(SubSeq(specs, 1, i - 1)), specs[i].chapter.name,
                  ChapterNames(SubSeq(specs, i + 1, Len(specs))))

\* Mutant: the section being written is listed as done and the next one as current.
chapter_progress_off_by_one(sections, j) ==
    IF j < Len(sections)
    THEN show_progress(ItemNames(SubSeq(sections, 1, j)), sections[j + 1].name,
                       ItemNames(SubSeq(sections, j + 2, Len(sections))))
    ELSE show_progress(ItemNames(SubSeq(sections, 1, j - 1)), sections[j].name, <<>>)

\* chapter_progress of section j: show_progress(sections[:j], sections[j], sections[j+1:])
chapter_progress_of(sections, j) ==
    show_progress(ItemNames(SubSeq(sections, 1, j - 1)), sections[j].name,
                  ItemNames(SubSeq(sections, j + 1, Len(sections))))

(* ------------------------------ formatting ----------------------------- *)

\* Mutant: the introduction is saved as formatted, not stripped.
intro_full_text_unstripped(current_spec, intro_text) ==
    <<"#", " ">> \o Str(current_spec.chapter_number) \o <<".", " ">>
    \o current_spec.chapter.name \o <<"\n", "\n">> \o intro_text

\* intro_full_text of _process_chapter_intro
intro_full_text(current_spec, intro_text) ==
    Strip(<<"#", " ">> \o Str(current_spec.chapter_number) \o <<".", " ">>
          \o current_spec.chapter.name \o <<"\n", "\n">> \o intro_text)

\* Mutant: the section gets a heading one level deeper.
full_section_text_level3(current_section, section_content) ==
    Strip(<<"###", " ">> \o current_section.name \o <<"\n", "\n">> \o section_content)

\* full_section_text of _process_single_section
full_section_text(current_section, section_content) ==
    Strip(<<"##", " ">> \o current_section.name \o <<"\n", "\n">> \o section_content)

\* chapter_content of chapter_based process_chapter
chapter_content(chapter_spec, text) ==
    <<"#", " ">> \o Str(chapter_spec.chapter_number) \o <<".", " ">>
    \o chapter_spec.chapter.name \o <<"\n", "\n">> \o text

\* get_part_label. The Cyrillic word is written by its code points
\* (U+0427 U+0430 U+0441 U+0442 U+044C), one token per letter.
get_part_label(language) ==
    CASE language = "en" -> <<"Part">>
      [] language = "ru" -> <<"U+0427", "U+0430", "U+0441", "U+0442", "U+044C">>
      [] language = "de" -> <<"Teil">>
      [] OTHER -> <<"Part">>

\* content of _process_part_intros
part_intro_content(language, part_number, part) ==
    <<"#", " ">> \o get_part_label(language) \o <<" ">> \o Str(part_number)
    \o <<":", " ">> \o part.name \o <<"\n", "\n">> \o part.introduction

(* ------------------------------ the state ------------------------------ *)

VARIABLES
    mode,           \* which executor runs: "section" or "chapter"
    book_plan,      \* BookExecutor.book_plan
    fs,             \* the book's root folder: [dirs, files]
    pc,             \* where execute() is
    chapter_specs,  \* the list _build_chapter_specs returned
    part_i,         \* _process_part_intros: 1-based position in book_plan.parts
    chapter_i,      \* _process_all_chapters: 1-based position in chapter_specs
    section_i,      \* 0: the chapter's intro is next; j: section j is next
    inflight,       \* the llm() call execute() is blocked in
    total_cost,     \* tracker.total_cost, in millionths of a dollar
    pending,        \* the write_text() in progress: its unit and content
    llm_log,        \* history: the units llm() was called for in this run
    save_log,       \* history: the units saved in this run, in order
    fs0,            \* history: fs when this run started
    prev,           \* history: how the previous run ended
    failed,         \* history: the unit whose llm() call raised in this run
    sp,             \* a call of show_progress on its own: arguments and result
    usage_log,      \* history: how many calls of this run reported each usage
    report,         \* a call of calculate_gemini_3_cost on its own: usage and result
    files_to_process,   \* TTSGenerator: the markdown files, each "text" or "blank"
    num_threads,        \* TTSGenerator.num_threads
    futures,            \* the state of each file's future in the pool
    worker,             \* each task's place in _process_single_file and its locals
    tts_total_cost,     \* TTSGenerator.total_cost
    cost_lock,          \* TTSGenerator.cost_lock: the task holding it, or 0
    audio,              \* the files whose .wav artifact exists
    main_pc,            \* where _process_book_standard is
    tts_calls,          \* history: the files the audio backend was called for
    outcome,            \* history: how each file's backend call ended
    audio0,             \* history: the artifacts that existed at the start
    tts_io,             \* TTSGenerator.s3_bucket; history: what each task read and wrote
    store,              \* a FileSystemWriter on its own: its folder and a call of it
    load,               \* BookPlan.model_validate on its own: the data and the outcome
    stream,             \* a plan stream: the backend's chunks and what was yielded
    ebook,              \* collect_markdown_content on its own: the folder and the result
    mp3                 \* WavToMp3Converter: the buckets, the local files, the runs

vars == <<mode, book_plan, fs, pc, chapter_specs, part_i, chapter_i, section_i,
          inflight, total_cost, pending, llm_log, save_log, fs0, prev, failed, sp,
          usage_log, report, files_to_process, num_threads, futures, worker,
          tts_total_cost, cost_lock, audio, main_pc, tts_calls, outcome, audio0,
          tts_io, store, load, stream, ebook, mp3>>

\* The state of the audio path.
tts_vars == <<files_to_process, num_threads, futures, worker, tts_total_cost,
              cost_lock, audio, main_pc, tts_calls, outcome, audio0, tts_io>>

\* The state of the tools run on their own.
tools == <<store, load, stream, ebook, mp3>>

\* The state beside one tool run on its own.
beside_store == <<load, stream, ebook, mp3>>
beside_load == <<store, stream, ebook, mp3>>
beside_stream == <<store, load, ebook, mp3>>
beside_ebook == <<store, load, stream, mp3>>
beside_mp3 == <<store, load, stream, ebook>>

\* The state of what runs beside the executor.
aside == <<report, tts_vars, tools>>

\* The state of the executor, of show_progress and of the cost report.
executor_vars_but_tools ==
    <<mode, book_plan, fs, pc, chapter_specs, part_i, chapter_i, section_i,
      inflight, total_cost, pending, llm_log, save_log, fs0, prev, failed,
      sp, usage_log, report>>

\* The state of the executor and of the functions run on their own.
executor_vars == <<mode, book_plan, fs, pc, chapter_specs, part_i, chapter_i, section_i,
                   inflight, total_cost, pending, llm_log, save_log, fs0, prev, failed,
                   sp, usage_log, report, tools>>

NoCall == [unit |-> NoUnit, instructions |-> "", prompt |-> <<>>]
NoWrite == [unit |-> NoUnit, content |-> <<>>]
NoProgressCall == [done |-> <<>>, current |-> <<>>, todo |-> <<>>,
                   result |-> <<>>, called |-> FALSE]
NoUsage == Usage(0, 0, 0)
NoReport == [usage |-> NoUsage, result |-> calculate_gemini_3_cost(NoUsage),
             called |-> FALSE]
NoUsageLog == [usage \in TieredUsages |-> 0]

\* A task that has not run: its place, the cost of its call, the total it read.
NoTask == [at |-> "start", cost |-> 0, local |-> 0]

\* A TTSGenerator with or without an S3 bucket before its run over n files:
\* nothing submitted, checked, read, asked of the backend or written.
NewTtsIo(s3_bucket, n) ==
    [s3_bucket |-> s3_bucket,
     submitted |-> [f \in 1..n |-> 0],
     called |-> [f \in 1..n |-> 0],
     head |-> [f \in 1..n |-> "none"],
     existed |-> [f \in 1..n |-> FALSE],
     text |-> [f \in 1..n |-> <<>>],
     wav |-> {}]

\* No TTSGenerator is at work.
TtsIdle ==
    /\ files_to_process = <<>>
    /\ num_threads = 1
    /\ futures = <<>>
    /\ worker = <<>>
    /\ tts_total_cost = 0
    /\ cost_lock = 0
    /\ audio = {}
    /\ main_pc = "idle"
    /\ tts_calls = {}
    /\ outcome = <<>>
    /\ audio0 = {}
    /\ tts_io = NewTtsIo(FALSE, 0)

\* No call of a FileSystemWriter on its own.
NoStoreCall == [op |-> "none", unit |-> NoUnit, content |-> <<>>,
                raised |-> FALSE, result |-> FALSE]
NoStore == [fs |-> [dirs |-> {}, files |-> <<>>],
            before |-> [dirs |-> {}, files |-> <<>>], call |-> NoStoreCall]

\* No plan data handed to BookPlan.model_validate.
NoLoad == [called |-> FALSE]

\* No plan stream consumed.
NoStream == [called |-> FALSE]

\* No folder handed to collect_markdown_content.
NoEbook == [called |-> FALSE]

\* No WavToMp3Converter at work.
NoMp3 == [called |-> FALSE]

StoreIdle == store = NoStore
LoadIdle == load = NoLoad
StreamIdle == stream = NoStream
EbookIdle == ebook = NoEbook
Mp3Idle == mp3 = NoMp3

\* No tool is run on its own.
ToolsIdle == StoreIdle /\ LoadIdle /\ StreamIdle /\ EbookIdle /\ Mp3Idle

\* Nothing runs beside the executor.
AsideIdle == report = NoReport /\ TtsIdle /\ ToolsIdle

(* ----------------------- the units of a plan --------------------------- *)

\* The content units execute() walks, in the order of its loops.
SectionModeUnits(specs) ==
    Join([i \in 1..Len(specs) |->
            <<Unit("intro", specs[i].part_number, specs[i].chapter_number, 0)>>
            \o [j \in 1..Len(specs[i].sections) |->
                  Unit("section", specs[i].part_number, specs[i].chapter_number, j)]],
         <<>>)

ChapterModeUnits(plan, specs) ==
    <<Unit("back_cover", 0, 0, 0)>>
    \o [p \in 1..Len(plan.parts) |-> Unit("part_intro", p, 0, 0)]
    \o [i \in 1..Len(specs) |->
          Unit("chapter", specs[i].part_number, specs[i].chapter_number, 0)]

UnitsOf(m, plan) ==
    IF m = "section" THEN SectionModeUnits(build_chapter_specs(m, plan))
    ELSE ChapterModeUnits(plan, build_chapter_specs(m, plan))

Range(s) == {s[k] : k \in 1..Len(s)}

\* What an earlier run, or anything else, left in the root folder, which
\* exists: execute_plan has read plan.yaml from it.
OldText == <<"old", " ", "text">>

StoreWith(units) ==
    [dirs |-> {Root} \cup
              {PartFolder(u.part_number) : u \in {v \in units : v.kind # "back_cover"}},
     files |-> [q \in {PathOf(u) : u \in units} |-> OldText]]

(* ------------------------------- Init ---------------------------------- *)

Init ==
    /\ mode \in Modes
    /\ book_plan \in BookPlans(mode)
    /\ \E present \in SUBSET Range(UnitsOf(mode, book_plan)) : fs = StoreWith(present)
    /\ pc = "idle"
    /\ chapter_specs = <<>>
    /\ part_i = 0
    /\ chapter_i = 0
    /\ section_i = 0
    /\ inflight = NoCall
    /\ total_cost = 0
    /\ usage_log = NoUsageLog
    /\ pending = NoWrite
    /\ llm_log = <<>>
    /\ save_log = <<>>
    /\ fs0 = fs
    /\ prev = "none"
    /\ failed = NoUnit
    /\ sp = NoProgressCall
    /\ AsideIdle

(* ------------------------------ execute() ------------------------------ *)

\* Mutant: no existence check, every unit is generated again.
NeverSkip(filesystem, u) == FALSE

\* Mutant: only chapter introductions are checked for existence.
SkipOnlyIntros(filesystem, u) == u.kind = "intro" /\ unit_exists(filesystem, u)

\* "if self.writer.<kind>_exists(...): ... skipping": the unit is left alone.
SkipUnit(filesystem, u) == unit_exists(filesystem, u)

\* Mutant: the exception is caught and the unit is tried again.
on_llm_error_retry == "chapters"

\* Where an exception raised by llm() leaves execute(): nothing catches it.
on_llm_error == "aborted"

\* Mutant: the sections of a chapter are visited last to first.
section_at_reversed(step, n) == n + 1 - step

\* for i in range(len(current_spec.sections)): the section visited at step j.
section_at(step, n) == step

\* The loops move on once unit u is dealt with (skipped or saved).
Advance(u) ==
    CASE u.kind = "back_cover" ->
            /\ pc' = "part_intros"
            /\ part_i' = 1
            /\ UNCHANGED <<chapter_i, section_i>>
      [] u.kind = "part_intro" ->
            /\ pc' = "part_intros"
            /\ part_i' = part_i + 1
            /\ UNCHANGED <<chapter_i, section_i>>
      [] u.kind = "chapter" ->
            /\ pc' = "chapters"
            /\ chapter_i' = chapter_i + 1
            /\ UNCHANGED <<part_i, section_i>>
      [] u.kind \in {"intro", "section"} ->
            /\ pc' = "chapters"
            /\ IF section_i < Len(chapter_specs[chapter_i].sections)
               THEN /\ section_i' = section_i + 1
                    /\ chapter_i' = chapter_i
               ELSE /\ section_i' = 0
                    /\ chapter_i' = chapter_i + 1
            /\ part_i' = part_i

Skip(u) ==
    /\ Advance(u)
    /\ UNCHANGED <<fs, inflight, total_cost, usage_log, pending, llm_log, save_log>>

\* response = llm(instructions=..., prompt=...): execute() blocks in the call.
CallLlm(u, instructions, prompt) ==
    /\ pc' = "llm"
    /\ inflight' = [unit |-> u, instructions |-> instructions, prompt |-> prompt]
    /\ llm_log' = Append(llm_log, u)
    /\ UNCHANGED <<fs, total_cost, usage_log, pending, save_log, part_i, chapter_i, section_i>>

\* How much of content a write_text() cut short may have put in the file.
CutLengths(content) == {0, Len(content) \div 2}

\* self.writer.save_<kind>(..., content). atomic: the write runs to its end
\* within the step; otherwise the file is open, created or truncated, and
\* holds a part of the content until the write completes.
Save(u, content, atomic) ==
    IF atomic
    THEN /\ fs' = save_unit(fs, u, content)
         /\ save_log' = Append(save_log, u)
         /\ pending' = pending
         /\ Advance(u)
    ELSE /\ \E n \in CutLengths(content) : fs' = save_unit(fs, u, SubSeq(content, 1, n))
         /\ pending' = [unit |-> u, content |-> content]
         /\ pc' = "writing"
         /\ UNCHANGED <<save_log, part_i, chapter_i, section_i>>

\* BookExecutor(book_plan, writer).execute() begins: a new executor, a new tracker.
Execute ==
    /\ pc \in {"idle", "done", "aborted"}
    /\ prev' = IF pc = "idle" THEN "none" ELSE pc
    /\ total_cost' = 0
    /\ usage_log' = NoUsageLog
    /\ llm_log' = <<>>
    /\ save_log' = <<>>
    /\ fs0' = fs
    /\ failed' = NoUnit
    /\ part_i' = 0
    /\ section_i' = 0
    /\ IF mode = "section"
       THEN /\ chapter_specs' = build_chapter_specs(mode, book_plan)
            /\ chapter_i' = 1
            /\ pc' = "chapters"
       ELSE /\ chapter_specs' = <<>>
            /\ chapter_i' = 0
            /\ pc' = "back_cover"
    /\ UNCHANGED <<mode, book_plan, fs, inflight, pending, sp, aside>>

\* book_generator BookExecutor._process_chapter_intro
ProcessChapterIntro ==
    /\ mode = "section"
    /\ pc = "chapters"
    /\ chapter_i <= Len(chapter_specs)
    /\ section_i = 0
    /\ LET current_spec == chapter_specs[chapter_i]
           u == Unit("intro", current_spec.part_number, current_spec.chapter_number, 0)
       IN  IF SkipUnit(fs, u) THEN Skip(u)
           ELSE CallLlm(u, "chapter_intro_instructions",
                        chapter_overview(current_spec.chapter))
    /\ UNCHANGED <<mode, book_plan, chapter_specs, fs0, prev, failed, sp, aside>>

\* book_generator BookExecutor._process_single_section (with process_section and
\* the book_progress of _process_chapter_sections)
ProcessSingleSection ==
    /\ mode = "section"
    /\ pc = "chapters"
    /\ chapter_i <= Len(chapter_specs)
    /\ section_i >= 1
    /\ LET current_spec == chapter_specs[chapter_i]
           i == section_at(section_i, Len(current_spec.sections))
           current_section == current_spec.sections[i]
           u == Unit("section", current_spec.part_number,
                     current_spec.chapter_number, i)
       IN  IF SkipUnit(fs, u) THEN Skip(u)
           ELSE CallLlm(u, "writer_instructions",
                        section_prompt(current_spec.chapter.name,
                                       current_section.name,
                                       Join(current_section.bullet_points, <<"\n">>),
                                       chapter_progress_of(current_spec.sections, i),
                                       book_progress_of(chapter_specs, chapter_i)))
    /\ UNCHANGED <<mode, book_plan, chapter_specs, fs0, prev, failed, sp, aside>>

\* chapter_based BookExecutor._process_back_cover
ProcessBackCover(atomic) ==
    /\ mode = "chapter"
    /\ pc = "back_cover"
    /\ LET u == Unit("back_cover", 0, 0, 0)
       IN  IF SkipUnit(fs, u) THEN Skip(u)
           ELSE /\ Save(u, book_plan.back_cover_description, atomic)
                /\ UNCHANGED <<inflight, total_cost, usage_log, llm_log>>
    /\ UNCHANGED <<mode, book_plan, chapter_specs, fs0, prev, failed, sp, aside>>

\* chapter_based BookExecutor._process_part_intros: one turn of its loop
ProcessPartIntro(atomic) ==
    /\ mode = "chapter"
    /\ pc = "part_intros"
    /\ part_i <= Len(book_plan.parts)
    /\ LET u == Unit("part_intro", part_i, 0, 0)
       IN  IF SkipUnit(fs, u) THEN Skip(u)
           ELSE /\ Save(u, part_intro_content(book_plan.book_language, part_i,
                                              book_plan.parts[part_i]), atomic)
                /\ UNCHANGED <<inflight, total_cost, usage_log, llm_log>>
    /\ UNCHANGED <<mode, book_plan, chapter_specs, fs0, prev, failed, sp, aside>>

\* chapter_based BookExecutor.execute: chapter_specs = self._build_chapter_specs()
BuildChapterSpecs ==
    /\ mode = "chapter"
    /\ pc = "part_intros"
    /\ part_i > Len(book_plan.parts)
    /\ chapter_specs' = build_chapter_specs(mode, book_plan)
    /\ chapter_i' = 1
    /\ pc' = "chapters"
    /\ UNCHANGED <<mode, book_plan, fs, part_i, section_i, inflight, total_cost, usage_log,
                   pending, llm_log, save_log, fs0, prev, failed, sp, aside>>

\* chapter_based BookExecutor._process_single_chapter (with process_chapter and
\* the book_progress of _process_all_chapters)
ProcessSingleChapter ==
    /\ mode = "chapter"
    /\ pc = "chapters"
    /\ chapter_i <= Len(chapter_specs)
    /\ LET current_spec == chapter_specs[chapter_i]
           u == Unit("chapter", current_spec.part_number,
                     current_spec.chapter_number, 0)
       IN  IF SkipUnit(fs, u) THEN Skip(u)
           ELSE CallLlm(u, "writer_instructions",
                        chapter_prompt(book_plan.name, current_spec.chapter.name,
                            Join([k \in 1..Len(current_spec.chapter.bullet_points) |->
                                    <<"-", " ">> \o current_spec.chapter.bullet_points[k]],
                                 <<"\n">>),
                            book_progress_of(chapter_specs, chapter_i)))
    /\ UNCHANGED <<mode, book_plan, chapter_specs, fs0, prev, failed, sp, aside>>

\* The text saved for unit u when the backend answered text.
FormattedText(u, text) ==
    CASE u.kind = "intro"   -> intro_full_text(chapter_specs[chapter_i], text)
      [] u.kind = "section" ->
            full_section_text(chapter_specs[chapter_i].sections[u.section_number], text)
      [] u.kind = "chapter" -> chapter_content(chapter_specs[chapter_i], text)

\* llm() returns: tracker.update(response.usage_metadata, ...), the text gets its
\* heading, and the writer saves it.
LlmReturn(atomic, usages, responses) ==
    /\ pc = "llm"
    /\ \E text \in responses, usage \in usages :
          /\ total_cost' = update(total_cost, usage)
          /\ usage_log' = [usage_log EXCEPT ![usage] = @ + 1]
          /\ Save(inflight.unit, FormattedText(inflight.unit, text), atomic)
    /\ inflight' = NoCall
    /\ UNCHANGED <<mode, book_plan, chapter_specs, llm_log, fs0, prev, failed, sp, aside>>

\* llm() raises: the exception leaves execute().
LlmRaise ==
    /\ pc = "llm"
    /\ pc' = on_llm_error
    /\ failed' = inflight.unit
    /\ inflight' = NoCall
    /\ UNCHANGED <<mode, book_plan, fs, chapter_specs, part_i, chapter_i, section_i,
                   total_cost, usage_log, pending, llm_log, save_log, fs0, prev, sp, aside>>

\* _process_all_chapters is through: "Execution completed."
Finish ==
    /\ pc = "chapters"
    /\ chapter_i > Len(chapter_specs)
    /\ pc' = "done"
    /\ UNCHANGED <<mode, book_plan, fs, chapter_specs, part_i, chapter_i, section_i,
                   inflight, total_cost, usage_log, pending, llm_log, save_log, fs0, prev,
                   failed, sp, aside>>

\* write_text() completes: the file holds the whole content.
CompleteWrite ==
    /\ pc = "writing"
    /\ fs' = save_unit(fs, pending.unit, pending.content)
    /\ save_log' = Append(save_log, pending.unit)
    /\ Advance(pending.unit)
    /\ pending' = NoWrite
    /\ UNCHANGED <<mode, book_plan, chapter_specs, inflight, total_cost, usage_log, llm_log,
                   fs0, prev, failed, sp, aside>>

\* The process is killed while execute() runs.
Kill ==
    /\ pc \in {"back_cover", "part_intros", "chapters", "llm", "writing"}
    /\ pc' = "aborted"
    /\ inflight' = NoCall
    /\ pending' = NoWrite
    /\ UNCHANGED <<mode, book_plan, fs, chapter_specs, part_i, chapter_i, section_i,
                   total_cost, usage_log, llm_log, save_log, fs0, prev, failed, sp, aside>>

\* Runs that end by themselves or by a backend error; a save is one step.
Next ==
    \/ Execute
    \/ ProcessChapterIntro
    \/ ProcessSingleSection
    \/ ProcessBackCover(TRUE)
    \/ ProcessPartIntro(TRUE)
    \/ BuildChapterSpecs
    \/ ProcessSingleChapter
    \/ LlmReturn(TRUE, Usages, Responses)
    \/ LlmRaise
    \/ Finish

Spec == Init /\ [][Next]_vars

\* Runs the process may be killed in at any point, a write in progress included.
NextKill ==
    \/ Execute
    \/ ProcessChapterIntro
    \/ ProcessSingleSection
    \/ ProcessBackCover(FALSE)
    \/ ProcessPartIntro(FALSE)
    \/ BuildChapterSpecs
    \/ ProcessSingleChapter
    \/ LlmReturn(FALSE, Usages, Responses)
    \/ LlmRaise
    \/ Finish
    \/ CompleteWrite
    \/ Kill

SpecKill == Init /\ [][NextKill]_vars

\* Runs in which the backend reports usages of both pricing tiers.
NextCost ==
    \/ Execute
    \/ ProcessChapterIntro
    \/ ProcessSingleSection
    \/ ProcessBackCover(TRUE)
    \/ ProcessPartIntro(TRUE)
    \/ BuildChapterSpecs
    \/ ProcessSingleChapter
    \/ LlmReturn(TRUE, TieredUsages, Responses)
    \/ LlmRaise
    \/ Finish

SpecCost == Init /\ [][NextCost]_vars

\* Runs in which the backend answers with or without surrounding whitespace.
NextText ==
    \/ Execute
    \/ ProcessChapterIntro
    \/ ProcessSingleSection
    \/ ProcessBackCover(TRUE)
    \/ ProcessPartIntro(TRUE)
    \/ BuildChapterSpecs
    \/ ProcessSingleChapter
    \/ LlmReturn(TRUE, Usages, PaddedResponses)
    \/ LlmRaise
    \/ Finish

\* They start on an empty root folder.
InitText == Init /\ DOMAIN fs.files = {}

SpecText == InitText /\ [][NextText]_vars

(* ----------------------- show_progress on its own ---------------------- *)

\* The items of a call: their own labels (name_function is the identity).
Labels == { <<"A">>, <<"B">>, <<"C">> }

SeqsUpTo(S, n) == UNION {[1..k -> S] : k \in 0..n}

InitProgress ==
    /\ mode = "section"
    /\ book_plan = BookPlan("section", <<>>, "en")
    /\ fs = StoreWith({})
    /\ pc = "idle"
    /\ chapter_specs = <<>>
    /\ part_i = 0
    /\ chapter_i = 0
    /\ section_i = 0
    /\ inflight = NoCall
    /\ total_cost = 0
    /\ usage_log = NoUsageLog
    /\ pending = NoWrite
    /\ llm_log = <<>>
    /\ save_log = <<>>
    /\ fs0 = fs
    /\ prev = "none"
    /\ failed = NoUnit
    /\ \E done \in SeqsUpTo(Labels, MaxItems), current \in Labels,
          todo \in SeqsUpTo(Labels, MaxItems) :
          sp = [done |-> done, current |-> current, todo |-> todo,
                result |-> <<>>, called |-> FALSE]
    /\ AsideIdle

\* result = show_progress(done, current, todo, lambda x: x)
ShowProgress ==
    /\ ~sp.called
    /\ sp' = [sp EXCEPT !.result = show_progress(sp.done, sp.current, sp.todo),
                        !.called = TRUE]
    /\ UNCHANGED <<mode, book_plan, fs, pc, chapter_specs, part_i, chapter_i, section_i,
                   inflight, total_cost, usage_log, pending, llm_log, save_log, fs0, prev, failed, aside>>

SpecProgress == InitProgress /\ [][ShowProgress]_vars

(* ------------------- calculate_gemini_3_cost on its own ---------------- *)

\* Token counts on both sides of the 200_000 threshold, and the tests' own.
PromptCounts == {0, 1, 10, 100000, 199999, 200000, 200001, 250000}
OutputCounts == {0, 1, 10, 10000}
ThoughtsCounts == {0, 1, 5, 5000}

InitEstimate ==
    /\ mode = "section"
    /\ book_plan = BookPlan("section", <<>>, "en")
    /\ fs = StoreWith({})
    /\ pc = "idle"
    /\ chapter_specs = <<>>
    /\ part_i = 0
    /\ chapter_i = 0
    /\ section_i = 0
    /\ inflight = NoCall
    /\ total_cost = 0
    /\ usage_log = NoUsageLog
    /\ pending = NoWrite
    /\ llm_log = <<>>
    /\ save_log = <<>>
    /\ fs0 = fs
    /\ prev = "none"
    /\ failed = NoUnit
    /\ sp = NoProgressCall
    /\ \E p \in PromptCounts, c \in OutputCounts, t \in ThoughtsCounts :
          report = [NoReport EXCEPT !.usage = Usage(p, c, t)]
    /\ TtsIdle
    /\ ToolsIdle

\* report.result = calculate_gemini_3_cost(usage_metadata)
Estimate ==
    /\ ~report.called
    /\ report' = [report EXCEPT !.result = calculate_gemini_3_cost(report.usage),
                                !.called = TRUE]
    /\ UNCHANGED <<mode, book_plan, fs, pc, chapter_specs, part_i, chapter_i, section_i,
                   inflight, total_cost, usage_log, pending, llm_log, save_log, fs0,
                   prev, failed, sp, tts_vars, tools>>

SpecEstimate == InitEstimate /\ [][Estimate]_vars

(* ------------------ the audio path: TTSGenerator ------------------------ *)
(* _process_book_standard with num_threads > 1: one task per markdown file *)
(* in a ThreadPoolExecutor of num_threads workers; the artifacts are local  *)
(* files, or objects of the S3 bucket when one is set.                      *)

\* What a markdown file holds: text to read aloud, or whitespace only.
FileKinds == {"text", "blank"}

\* How the audio backend answers a call: audio data, an exception, or a
\* response without candidates, parts or data.
TtsAnswers == {"audio", "error", "empty"}

\* calculate_tts_cost(response.usage_metadata, ...), in millionths of a dollar.
TtsCosts == {3, 5}

FileIds == 1..Len(files_to_process)

Running == {f \in FileIds : futures[f] = "running"}

AudioSetup(s3_bucket) ==
    /\ mode = "section"
    /\ book_plan = BookPlan("section", <<>>, "en")
    /\ fs = StoreWith({})
    /\ pc = "idle"
    /\ chapter_specs = <<>>
    /\ part_i = 0
    /\ chapter_i = 0
    /\ section_i = 0
    /\ inflight = NoCall
    /\ total_cost = 0
    /\ usage_log = NoUsageLog
    /\ pending = NoWrite
    /\ llm_log = <<>>
    /\ save_log = <<>>
    /\ fs0 = fs
    /\ prev = "none"
    /\ failed = NoUnit
    /\ sp = NoProgressCall
    /\ report = NoReport
    /\ \E n \in 0..MaxFiles : files_to_process \in [1..n -> FileKinds]
    /\ num_threads \in 2..MaxThreads
    /\ futures = [f \in FileIds |-> "unsubmitted"]
    /\ worker = [f \in FileIds |-> NoTask]
    /\ tts_total_cost = 0
    /\ cost_lock = 0
    /\ audio \in SUBSET FileIds
    /\ main_pc = "submit"
    /\ tts_calls = {}
    /\ outcome = [f \in FileIds |-> "none"]
    /\ audio0 = audio
    /\ tts_io = NewTtsIo(s3_bucket, Len(files_to_process))
    /\ ToolsIdle

\* TTSGenerator(s3_bucket=None): the artifacts are local files.
InitAudio == AudioSetup(FALSE)

\* TTSGenerator(s3_bucket="..."): the artifacts are objects of the bucket.
InitAudioS3 == AudioSetup(TRUE)

\* file_path.relative_to(base_path) of the files os.walk finds: the part
\* folder, the name without its suffix, the suffix.
RelativePath(f) ==
    <<"part", (f + 1) \div 2, IF f % 2 = 1 THEN "00_intro" ELSE "01_section", "md">>

\* Path.with_suffix
with_suffix(path, suffix) == [path EXCEPT ![Len(path)] = suffix]

\* audio_base_path / relative_path.with_suffix(".wav"), and the S3 key
\* f"{book_name}/{relative_path.with_suffix('.wav')}".
output_path(f) == with_suffix(RelativePath(f), "wav")

\* file_path.read_text(encoding="utf-8")
FileText(f) == <<files_to_process[f], RelativePath(f)>>

\* How the look for the artifact ends. Without a bucket output_path.exists()
\* tells; with one head_object returns, raises for a missing key, or raises
\* for another reason.
ExistsAnswers(f) ==
    IF tts_io.s3_bucket
    THEN (IF f \in audio THEN {"found"} ELSE {"missing"}) \cup {"error"}
    ELSE (IF f \in audio THEN {"found"} ELSE {"missing"})

\* _s3_file_exists: True when head_object returned, False on any exception.
s3_file_exists(answer) == answer = "found"

\* future = pool.submit(self._process_single_file, file_path, ...)
Submit ==
    /\ main_pc = "submit"
    /\ \E f \in FileIds :
          /\ futures[f] = "unsubmitted"
          /\ \A g \in 1..(f - 1) : futures[g] # "unsubmitted"
          /\ futures' = [futures EXCEPT ![f] = "pending"]
          /\ tts_io' = [tts_io EXCEPT !.submitted[f] = @ + 1]
    /\ UNCHANGED <<files_to_process, num_threads, worker, tts_total_cost, cost_lock,
                   audio, main_pc, tts_calls, outcome, audio0>>
    /\ UNCHANGED executor_vars

\* The loop of submissions is over: "for future in futures: future.result(...)".
AwaitFutures ==
    /\ main_pc = "submit"
    /\ \A f \in FileIds : futures[f] # "unsubmitted"
    /\ main_pc' = "wait"
    /\ UNCHANGED <<files_to_process, num_threads, futures, worker, tts_total_cost,
                   cost_lock, audio, tts_calls, outcome, audio0, tts_io>>
    /\ UNCHANGED executor_vars

\* A worker thread of the pool takes the oldest queued work item and runs it;
\* at most num_threads run at once.
TaskStart(f) ==
    /\ futures[f] = "pending"
    /\ \A g \in 1..(f - 1) : futures[g] # "pending"
    /\ Cardinality(Running) < num_threads
    /\ futures' = [futures EXCEPT ![f] = "running"]
    /\ UNCHANGED <<files_to_process, num_threads, worker, tts_total_cost, cost_lock,
                   audio, main_pc, tts_calls, outcome, audio0, tts_io>>
    /\ UNCHANGED executor_vars

\* _process_single_file up to the backend call: an existing artifact is
\* skipped; generate_audio_bytes returns None for blank text; otherwise
\* client.models.generate_content is called.
TaskBegin(f) ==
    /\ futures[f] = "running"
    /\ worker[f].at = "start"
    /\ \E answer \in ExistsAnswers(f) :
          LET seen == [tts_io EXCEPT !.head[f] = answer, !.existed[f] = f \in audio]
          IN  IF s3_file_exists(answer)
              THEN /\ futures' = [futures EXCEPT ![f] = "finished"]
                   /\ worker' = [worker EXCEPT ![f].at = "end"]
                   /\ tts_calls' = tts_calls
                   /\ tts_io' = seen
              ELSE IF files_to_process[f] = "blank"
              THEN /\ futures' = [futures EXCEPT ![f] = "finished"]
                   /\ worker' = [worker EXCEPT ![f].at = "end"]
                   /\ tts_calls' = tts_calls
                   /\ tts_io' = [seen EXCEPT !.text[f] = FileText(f)]
              ELSE /\ futures' = futures
                   /\ worker' = [worker EXCEPT ![f].at = "call"]
                   /\ tts_calls' = tts_calls \cup {f}
                   /\ tts_io' = [seen EXCEPT !.text[f] = FileText(f),
                                              !.called[f] = @ + 1]
    /\ UNCHANGED <<files_to_process, num_threads, tts_total_cost, cost_lock, audio,
                   main_pc, outcome, audio0>>
    /\ UNCHANGED executor_vars

\* Mutant: a response without audio data is taken for audio.
generate_audio_bytes_unchecked(answer) == IF answer = "error" THEN "None" ELSE "wav_bytes"

\* What generate_audio_bytes returns: None when generate_content raised
\* (except Exception) or answered without candidates, parts or data.
generate_audio_bytes(answer) == IF answer = "audio" THEN "wav_bytes" ELSE "None"

\* generate_content returns or raises. When generate_audio_bytes returns None
\* the task ends with no artifact; otherwise the cost of the call is computed.
TaskResponse(f) ==
    /\ futures[f] = "running"
    /\ worker[f].at = "call"
    /\ \E answer \in TtsAnswers :
          /\ outcome' = [outcome EXCEPT ![f] = answer]
          /\ IF generate_audio_bytes(answer) # "None"
             THEN /\ \E cost \in TtsCosts :
                        worker' = [worker EXCEPT ![f].at = "acquire", ![f].cost = cost]
                  /\ futures' = futures
             ELSE /\ worker' = [worker EXCEPT ![f].at = "end"]
                  /\ futures' = [futures EXCEPT ![f] = "finished"]
    /\ UNCHANGED <<files_to_process, num_threads, tts_total_cost, cost_lock, audio,
                   main_pc, tts_calls, audio0, tts_io>>
    /\ UNCHANGED executor_vars

\* Mutant: the increment is made without taking the lock.
LockIgnored(lock) == TRUE

\* threading.Lock: acquire() goes through when no thread holds the lock.
LockFree(lock) == lock = 0

\* with self.cost_lock: (acquire)
TaskAcquire(f) ==
    /\ futures[f] = "running"
    /\ worker[f].at = "acquire"
    /\ LockFree(cost_lock)
    /\ cost_lock' = f
    /\ worker' = [worker EXCEPT ![f].at = "load"]
    /\ UNCHANGED <<files_to_process, num_threads, futures, tts_total_cost, audio,
                   main_pc, tts_calls, outcome, audio0, tts_io>>
    /\ UNCHANGED executor_vars

\* self.total_cost += cost: the total is read ...
TaskLoad(f) ==
    /\ futures[f] = "running"
    /\ worker[f].at = "load"
    /\ worker' = [worker EXCEPT ![f].at = "store", ![f].local = tts_total_cost]
    /\ UNCHANGED <<files_to_process, num_threads, futures, tts_total_cost, cost_lock,
                   audio, main_pc, tts_calls, outcome, audio0, tts_io>>
    /\ UNCHANGED executor_vars

\* ... and written back with the cost added; the with block releases the lock.
TaskStore(f) ==
    /\ futures[f] = "running"
    /\ worker[f].at = "store"
    /\ tts_total_cost' = worker[f].local + worker[f].cost
    /\ cost_lock' = 0
    /\ worker' = [worker EXCEPT ![f].at = "write"]
    /\ UNCHANGED <<files_to_process, num_threads, futures, audio, main_pc, tts_calls,
                   outcome, audio0, tts_io>>
    /\ UNCHANGED executor_vars

\* generate_audio: output_path.write_bytes(wav_bytes), or with a bucket
\* _upload_to_s3(wav_bytes, s3_key), whose put_object may raise; the task
\* returns, the exception caught in _process_single_file.
TaskWrite(f) ==
    /\ futures[f] = "running"
    /\ worker[f].at = "write"
    /\ \/ /\ audio' = audio \cup {f}
          /\ tts_io' = [tts_io EXCEPT !.wav = @ \cup {<<output_path(f), tts_io.text[f]>>}]
       \/ /\ tts_io.s3_bucket
          /\ UNCHANGED <<audio, tts_io>>
    /\ worker' = [worker EXCEPT ![f].at = "end"]
    /\ futures' = [futures EXCEPT ![f] = "finished"]
    /\ UNCHANGED <<files_to_process, num_threads, tts_total_cost, cost_lock, main_pc,
                   tts_calls, outcome, audio0>>
    /\ UNCHANGED executor_vars

\* Every future.result() has returned; finally: pool.shutdown(wait=True).
AllDone ==
    /\ main_pc = "wait"
    /\ \A f \in FileIds : futures[f] = "finished"
    /\ main_pc' = "finished"
    /\ UNCHANGED <<files_to_process, num_threads, futures, worker, tts_total_cost,
                   cost_lock, audio, tts_calls, outcome, audio0, tts_io>>
    /\ UNCHANGED executor_vars

\* KeyboardInterrupt reaches the main thread inside the try block.
Interrupt ==
    /\ main_pc \in {"submit", "wait"}
    /\ main_pc' = "stopping"
    /\ UNCHANGED <<files_to_process, num_threads, futures, worker, tts_total_cost,
                   cost_lock, audio, tts_calls, outcome, audio0, tts_io>>
    /\ UNCHANGED executor_vars

\* Mutant: the pool is shut down without cancel_futures.
shutdown_keeps_queue(state) == state

\* pool.shutdown(wait=False, cancel_futures=True): what becomes of a future.
shutdown_cancel_futures(state) == IF state = "pending" THEN "cancelled" ELSE state

\* except KeyboardInterrupt: pool.shutdown(wait=False, cancel_futures=True);
\* sys.exit(0). The queued futures are cancelled, the running tasks go on.
Shutdown ==
    /\ main_pc = "stopping"
    /\ futures' = [f \in FileIds |-> shutdown_cancel_futures(futures[f])]
    /\ main_pc' = "exited"
    /\ UNCHANGED <<files_to_process, num_threads, worker, tts_total_cost, cost_lock,
                   audio, tts_calls, outcome, audio0, tts_io>>
    /\ UNCHANGED executor_vars

NextAudio ==
    \/ Submit
    \/ AwaitFutures
    \/ \E f \in FileIds :
          \/ TaskStart(f)
          \/ TaskBegin(f)
          \/ TaskResponse(f)
          \/ TaskAcquire(f)
          \/ TaskLoad(f)
          \/ TaskStore(f)
          \/ TaskWrite(f)
    \/ AllDone
    \/ Interrupt
    \/ Shutdown

SpecAudio == InitAudio /\ [][NextAudio]_vars

SpecAudioS3 == InitAudioS3 /\ [][NextAudio]_vars

(* ------------------- a FileSystemWriter on its own --------------------- *)
(* One call of save_<kind> or <kind>_exists on a root folder in any state,  *)
(* a missing root folder included.                                          *)

\* No executor, progress call, cost report or audio path is at work.
ExecutorIdle ==
    /\ mode = "section"
    /\ book_plan = BookPlan("section", <<>>, "en")
    /\ fs = StoreWith({})
    /\ pc = "idle"
    /\ chapter_specs = <<>>
    /\ part_i = 0
    /\ chapter_i = 0
    /\ section_i = 0
    /\ inflight = NoCall
    /\ total_cost = 0
    /\ usage_log = NoUsageLog
    /\ pending = NoWrite
    /\ llm_log = <<>>
    /\ save_log = <<>>
    /\ fs0 = fs
    /\ prev = "none"
    /\ failed = NoUnit
    /\ sp = NoProgressCall
    /\ report = NoReport
    /\ TtsIdle

\* The units the writer is called for.
StoreUnits ==
    {Unit("intro", 1, 1, 0), Unit("intro", 2, 12, 0),
     Unit("section", 1, 1, 1), Unit("section", 1, 1, 2), Unit("section", 2, 12, 1),
     Unit("chapter", 1, 1, 0), Unit("chapter", 2, 12, 0),
     Unit("part_intro", 1, 0, 0), Unit("part_intro", 2, 0, 0),
     Unit("back_cover", 0, 0, 0)}

\* The texts it is handed.
StoreTexts == {OldText, <<"new", " ", "text">>}

\* The states of a root folder: missing, or there with some part folders
\* and some units in them.
Stores ==
    {[dirs |-> {}, files |-> <<>>]} \cup
    {[dirs |-> StoreWith(present).dirs \cup folders, files |-> StoreWith(present).files] :
        present \in SUBSET StoreUnits, folders \in SUBSET {PartFolder(1), PartFolder(2)}}

InitStore ==
    /\ ExecutorIdle
    /\ LoadIdle /\ StreamIdle /\ EbookIdle /\ Mp3Idle
    /\ \E filesystem \in Stores :
          store = [fs |-> filesystem, before |-> filesystem, call |-> NoStoreCall]

\* writer.save_<kind>(<position>, content)
WriterSave ==
    /\ store.call.op = "none"
    /\ \E u \in StoreUnits, content \in StoreTexts :
          store' = IF save_unit_raises(store.fs, u)
                   THEN [store EXCEPT !.call = [op |-> "save", unit |-> u,
                                                content |-> content, raised |-> TRUE,
                                                result |-> FALSE]]
                   ELSE [store EXCEPT !.fs = save_unit(store.fs, u, content),
                                      !.call = [op |-> "save", unit |-> u,
                                                content |-> content, raised |-> FALSE,
                                                result |-> FALSE]]
    /\ UNCHANGED <<executor_vars_but_tools, tts_vars, beside_store>>

\* writer.<kind>_exists(<position>)
WriterExists ==
    /\ store.call.op = "none"
    /\ \E u \in StoreUnits :
          store' = [store EXCEPT !.call = [op |-> "exists", unit |-> u,
                                           content |-> <<>>, raised |-> FALSE,
                                           result |-> unit_exists(store.fs, u)]]
    /\ UNCHANGED <<executor_vars_but_tools, tts_vars, beside_store>>

NextStore == WriterSave \/ WriterExists

SpecStore == InitStore /\ [][NextStore]_vars

(* ------------------- BookPlan.model_validate on its own ---------------- *)
(* Plan data as yaml.safe_load returns it: at each level the keys that are  *)
(* there, and the lists under them.                                         *)

PlanKeys == {"book_language", "name", "slug", "target_reader",
             "back_cover_description", "parts"}
PartKeys == {"name", "introduction", "chapters"}
ChapterKeys == {"name", "sections", "bullet_points"}
SectionKeys == {"name", "bullet_points"}

\* The values of book_language in the data: the supported tags and another.
LanguageValues == Languages \cup {"fr"}

\* All of keys, or all but one.
KeySets(keys) == {keys} \cup {keys \ {k} : k \in keys}

\* Lists of at most one element of S.
ShortLists(S) == {<<>>} \cup {<<x>> : x \in S}

SectionData == {[has |-> h] : h \in KeySets(SectionKeys)}

ChapterData ==
    UNION {{[has |-> h, sections |-> ss] :
              ss \in (IF "sections" \in h THEN ShortLists(SectionData) ELSE {<<>>})} :
           h \in SUBSET ChapterKeys}

PartData ==
    UNION {{[has |-> h, chapters |-> cs] :
              cs \in (IF "chapters" \in h THEN ShortLists(ChapterData) ELSE {<<>>})} :
           h \in KeySets(PartKeys)}

PlanData ==
    UNION {{[has |-> h, book_language |-> lang, parts |-> ps] :
              lang \in (IF "book_language" \in h THEN LanguageValues ELSE {"none"}),
              ps \in (IF "parts" \in h THEN ShortLists(PartData) ELSE {<<>>})} :
           h \in KeySets(PlanKeys)}

\* BookSectionPlan: name and bullet_points are required.
SectionPlanValid(d) == {"name", "bullet_points"} \subseteq d.has

\* book_generator BookChapterPlan: name and sections are required;
\* chapter_based ChapterPlan: name and bullet_points are required. A key the
\* model does not declare is ignored (pydantic's default, extra = "ignore").
ChapterPlanValid(m, d) ==
    IF m = "section"
    THEN /\ {"name", "sections"} \subseteq d.has
         /\ \A k \in 1..Len(d.sections) : SectionPlanValid(d.sections[k])
    ELSE {"name", "bullet_points"} \subseteq d.has

\* BookPartPlan: name, introduction and chapters are required.
PartPlanValid(m, d) ==
    /\ {"name", "introduction", "chapters"} \subseteq d.has
    /\ \A k \in 1..Len(d.chapters) : ChapterPlanValid(m, d.chapters[k])

\* BookPlan.model_validate(data): a BookPlan, or pydantic's ValidationError.
model_validate(m, d) ==
    IF /\ {"book_language", "name", "slug", "target_reader",
           "back_cover_description", "parts"} \subseteq d.has
       /\ d.book_language \in {"ru", "en", "de"}
       /\ \A k \in 1..Len(d.parts) : PartPlanValid(m, d.parts[k])
    THEN "BookPlan"
    ELSE "ValidationError"

InitLoad ==
    /\ ExecutorIdle
    /\ StoreIdle /\ StreamIdle /\ EbookIdle /\ Mp3Idle
    /\ \E m \in Modes, d \in PlanData :
          load = [called |-> FALSE, mode |-> m, data |-> d, result |-> "none"]

\* book_plan = BookPlan.model_validate(data)
Validate ==
    /\ ~load.called
    /\ load' = [load EXCEPT !.called = TRUE,
                            !.result = model_validate(load.mode, load.data)]
    /\ UNCHANGED <<executor_vars_but_tools, tts_vars, beside_load>>

SpecLoad == InitLoad /\ [][Validate]_vars

(* ------- generate_text_plan_stream / refine_text_plan_stream ----------- *)
(* A generator over the chunks of client.models.generate_content_stream.   *)

\* The two generators; they differ in their prompt only.
StreamFunctions == {"generate_text_plan_stream", "refine_text_plan_stream"}

\* chunk.text: None, the empty string, or text.
ChunkTexts ==
    {[is_none |-> TRUE, text |-> <<>>], [is_none |-> FALSE, text |-> <<>>],
     [is_none |-> FALSE, text |-> <<"Part", " ">>], [is_none |-> FALSE, text |-> <<"One", "\n">>]}

\* chunk.usage_metadata: None, or the counters so far.
ChunkUsages ==
    {[is_none |-> TRUE, usage |-> NoUsage]}
    \cup {[is_none |-> FALSE, usage |-> u] : u \in TieredUsages}

\* The chunks of a response: every one has the attribute usage_metadata.
Chunks == {[text |-> t, usage_metadata |-> u] : t \in ChunkTexts, u \in ChunkUsages}

\* A text element of the generator's output, and its completion element.
TextElement(text) == [kind |-> "text", text |-> text, cost |-> 0]
DoneElement(full_text, cost) == [kind |-> "__DONE__", text |-> full_text, cost |-> cost]

\* "if chunk.text:": neither None nor empty.
Truthy(chunk_text) == ~chunk_text.is_none /\ chunk_text.text # <<>>

\* Mutant: full_text = chunk.text
full_text_replaced(full_text, text) == text

\* full_text += chunk.text
full_text_plus(full_text, text) == full_text \o text

\* get_val on the last chunk's usage_metadata: a missing object counts as
\* zero tokens.
usage_of(usage_metadata) == IF usage_metadata.is_none THEN NoUsage ELSE usage_metadata.usage

InitStream ==
    /\ ExecutorIdle
    /\ StoreIdle /\ LoadIdle /\ EbookIdle /\ Mp3Idle
    /\ \E fn \in StreamFunctions, n \in 0..MaxChunks :
          \E response \in [1..n -> Chunks] :
              stream = [called |-> TRUE, fn |-> fn, response |-> response, at |-> 0,
                        full_text |-> <<>>, state |-> "iterating", yielded |-> <<>>]

\* for chunk in response: one turn of the loop
StreamChunk ==
    /\ stream.state = "iterating"
    /\ stream.at < Len(stream.response)
    /\ LET chunk == stream.response[stream.at + 1]
       IN  stream' =
              IF Truthy(chunk.text)
              THEN [stream EXCEPT !.at = @ + 1,
                                  !.full_text = full_text_plus(@, chunk.text.text),
                                  !.yielded = Append(@, TextElement(chunk.text.text))]
              ELSE [stream EXCEPT !.at = @ + 1]
    /\ UNCHANGED <<executor_vars_but_tools, tts_vars, beside_stream>>

\* The response is exhausted: the completion element, with the cost of the
\* last chunk's usage, or 0.0 when there was no chunk.
StreamDone ==
    /\ stream.state = "iterating"
    /\ stream.at = Len(stream.response)
    /\ LET cost == IF stream.at > 0
                   THEN calculate_gemini_3_cost(
                            usage_of(stream.response[stream.at].usage_metadata)).total_cost
                   ELSE 0
       IN  stream' = [stream EXCEPT !.state = "finished",
                                    !.yielded = Append(@, DoneElement(stream.full_text, cost))]
    /\ UNCHANGED <<executor_vars_but_tools, tts_vars, beside_stream>>

\* The backend's stream raises: the exception leaves the generator.
StreamRaise ==
    /\ stream.state = "iterating"
    /\ stream.at < Len(stream.response)
    /\ stream' = [stream EXCEPT !.state = "raised"]
    /\ UNCHANGED <<executor_vars_but_tools, tts_vars, beside_stream>>

NextStream == StreamChunk \/ StreamDone \/ StreamRaise

SpecStream == InitStream /\ [][NextStream]_vars

(* ---------------- the EPUB assembly: collect_markdown_content ---------- *)

\* The two scripts that hold collect_markdown_content.
EbookScripts == {"scripts/convert_to_ebook.py", "convert_to_ebook.py"}

\* The characters of the tokens file and folder names are written with;
\* every other token is one character.
Spell(token) ==
    CASE token = "part_"         -> <<"p", "a", "r", "t", "_">>
      [] token = "_00_intro.md"  -> <<"_", "0", "0", "_", "i", "n", "t", "r", "o", ".", "m", "d">>
      [] token = "_section.md"   -> <<"_", "s", "e", "c", "t", "i", "o", "n", ".", "m", "d">>
      [] token = "_chapter.md"   -> <<"_", "c", "h", "a", "p", "t", "e", "r", ".", "m", "d">>
      [] token = "_part_"        -> <<"_", "p", "a", "r", "t", "_">>
      [] token = "_intro.md"     -> <<"_", "i", "n", "t", "r", "o", ".", "m", "d">>
      [] token = "_part_intro.md" ->
            <<"_", "p", "a", "r", "t", "_", "i", "n", "t", "r", "o", ".", "m", "d">>
      [] token = "back_cover.md" ->
            <<"b", "a", "c", "k", "_", "c", "o", "v", "e", "r", ".", "m", "d">>
      [] token = "plan.yaml"     -> <<"p", "l", "a", "n", ".", "y", "a", "m", "l">>
      [] OTHER -> <<token>>

\* The characters of a name.
RECURSIVE Chars(_)
Chars(name) == IF name = <<>> THEN <<>> ELSE Spell(Head(name)) \o Chars(Tail(name))

\* The characters of the names, in the order of their code points.
Alphabet ==
    <<".", "0", "1", "2", "3", "4", "5", "6", "7", "8", "9", "_",
      "a", "b", "c", "d", "e", "f", "g", "h", "i", "j", "k", "l", "m",
      "n", "o", "p", "q", "r", "s", "t", "u", "v", "w", "x", "y", "z">>

\* ord(ch), up to the order.
Ord(ch) == CHOOSE i \in 1..Len(Alphabet) : Alphabet[i] = ch

\* a < b for two str: by the first character that differs, a proper prefix
\* first.
RECURSIVE StrLess(_, _)
StrLess(a, b) ==
    IF b = <<>> THEN FALSE
    ELSE IF a = <<>> THEN TRUE
    ELSE IF Head(a) = Head(b) THEN StrLess(Tail(a), Tail(b))
    ELSE Ord(Head(a)) < Ord(Head(b))

\* sorted(names) of a set of names.
RECURSIVE Sorted(_)
Sorted(names) ==
    IF names = {} THEN <<>>
    ELSE LET least == CHOOSE x \in names :
                         \A y \in names : x = y \/ StrLess(Chars(x), Chars(y))
         IN  <<least>> \o Sorted(names \ {least})

\* str.startswith / str.endswith
StartsWith(name, prefix) ==
    /\ Len(Chars(name)) >= Len(Chars(prefix))
    /\ SubSeq(Chars(name), 1, Len(Chars(prefix))) = Chars(prefix)
EndsWith(name, suffix) ==
    LET c == Chars(name)
        x == Chars(suffix)
    IN  Len(c) >= Len(x) /\ SubSeq(c, Len(c) - Len(x) + 1, Len(c)) = x

\* Where the "/" of a path is; 0 for an entry of the book folder itself.
SlashAt(path) ==
    IF \E k \in 1..Len(path) : path[k] = "/"
    THEN CHOOSE k \in 1..Len(path) : path[k] = "/"
    ELSE 0

\* The folder a file is in and its name there.
FolderOf(path) == SubSeq(path, 1, SlashAt(path) - 1)
NameOf(path) == SubSeq(path, SlashAt(path) + 1, Len(path))

\* os.listdir(book_dir / folder): the entries of a folder of the book.
listdir(book, folder) ==
    {NameOf(path) : path \in {q \in DOMAIN book.files : FolderOf(q) = folder}}
    \cup (IF folder = Root THEN book.dirs \ {Root} ELSE {})

\* get_sorted_parts
get_sorted_parts(book) ==
    Sorted({item \in listdir(book, Root) :
               item \in book.dirs /\ StartsWith(item, <<"part_">>)})

\* Mutant: files whose name starts with "_" are kept.
get_sorted_files_all(book, part_name) ==
    Sorted({item \in listdir(book, part_name) : EndsWith(item, <<".", "m", "d">>)})

\* get_sorted_files
get_sorted_files(book, part_name) ==
    Sorted({item \in listdir(book, part_name) :
               EndsWith(item, <<".", "m", "d">>) /\ ~StartsWith(item, <<"_">>)})

\* A run of one to seven hashes, by its length.
Hashes == <<"#", "##", "###", "####", "#####", "######", "#######">>

\* content.split("\n")
RECURSIVE split_lines(_)
split_lines(content) ==
    IF \E k \in 1..Len(content) : content[k] = "\n"
    THEN LET k == CHOOSE i \in 1..Len(content) :
                     content[i] = "\n" /\ \A j \in 1..(i - 1) : content[j] # "\n"
         IN  <<SubSeq(content, 1, k - 1)>> \o split_lines(SubSeq(content, k + 1, Len(content)))
    ELSE <<content>>

\* Whether header_regex, ^(#{1,6})\s+(.*), matches a line.
IsHeader(line) ==
    /\ Len(line) >= 2
    /\ \E n \in 1..6 : line[1] = Hashes[n]
    /\ line[2] \in {" ", "\t"}

\* shift_headers(content, 1): every header line gets one more hash, one
\* space, and the text after the whitespace that followed the hashes.
shift_line(line) ==
    IF IsHeader(line)
    THEN LET n == CHOOSE i \in 1..6 : line[1] = Hashes[i]
         IN  <<Hashes[n + 1], " ">> \o LStrip(SubSeq(line, 2, Len(line)))
    ELSE line
shift_headers(content) ==
    LET lines == split_lines(content)
    IN  Join([k \in 1..Len(lines) |-> shift_line(lines[k])], <<"\n">>)

\* part_name.split("_")[1]: the digits of a folder name "part_<digits>".
part_number_of(part_name) == Tail(part_name)

\* scripts/convert_to_ebook.py: part_dir / f"_part_{part_number}_intro.md"
part_intro_path(part_name) ==
    part_name \o <<"/">> \o <<"_part_">> \o part_number_of(part_name) \o <<"_intro.md">>

\* convert_to_ebook.py: part_dir / "_part_intro.md"
part_intro_path_unnumbered(part_name) == part_name \o <<"/">> \o <<"_part_intro.md">>

\* The text a complete run leaves for unit u of a plan, the backend having
\* answered every call with the same text.
UnitText(m, plan, u) ==
    LET specs == build_chapter_specs(m, plan)
        text == <<"Generated", " ", "content">>
    IN  CASE u.kind = "back_cover" -> plan.back_cover_description
          [] u.kind = "part_intro" ->
                part_intro_content(plan.book_language, u.part_number,
                                   plan.parts[u.part_number])
          [] u.kind = "intro" -> intro_full_text(specs[u.chapter_number], text)
          [] u.kind = "section" ->
                full_section_text(specs[u.chapter_number].sections[u.section_number], text)
          [] u.kind = "chapter" -> chapter_content(specs[u.chapter_number], text)

\* The book folder after a complete run on plan: plan.yaml and every unit.
GeneratedBook(m, plan) ==
    LET units == Range(UnitsOf(m, plan))
    IN  [dirs |-> {Root} \cup
                  {PartFolder(u.part_number) :
                     u \in {v \in units : v.kind # "back_cover"}},
         files |-> [path \in {PathOf(u) : u \in units} \cup {<<"plan.yaml">>} |->
                      IF path = <<"plan.yaml">> THEN <<"plan">>
                      ELSE UnitText(m, plan, CHOOSE u \in units : PathOf(u) = path)]]

\* The plans whose books are assembled: up to three parts of up to two
\* chapters, and plans that reach two-digit part, chapter and section numbers.
RECURSIVE PartLists(_)
PartLists(n) ==
    IF n = 0 THEN {<<>>}
    ELSE {<<cl>> \o rest : cl \in {<<>>, <<0>>, <<0, 0>>}, rest \in PartLists(n - 1)}

\* A shape with every chapter given k sections.
WithSections(shape, k) ==
    [p \in 1..Len(shape) |-> [c \in 1..Len(shape[p]) |-> k]]

EbookShapes ==
    {WithSections(sh, k) : sh \in PartLists(1) \cup PartLists(2) \cup PartLists(3),
                           k \in {0, 1, 2}}
    \cup {<<[c \in 1..11 |-> 1]>>,
          <<<<11>>>>,
          [p \in 1..11 |-> <<1>>],
          <<[c \in 1..9 |-> 0], <<2, 11>>>>}

InitEbook ==
    /\ ExecutorIdle
    /\ StoreIdle /\ LoadIdle /\ StreamIdle /\ Mp3Idle
    /\ \E script \in EbookScripts, m \in Modes, shape \in EbookShapes :
          ebook = [called |-> TRUE, script |-> script, mode |-> m,
                   plan |-> BookPlan(m, shape, "en"),
                   book |-> GeneratedBook(m, BookPlan(m, shape, "en")),
                   phase |-> "start", parts |-> <<>>, at |-> 0,
                   full_content |-> <<>>, read |-> <<>>, result |-> <<>>]

\* parts = get_sorted_parts(book_dir)
EbookSortParts ==
    /\ ebook.called
    /\ ebook.phase = "start"
    /\ ebook' = [ebook EXCEPT !.phase = "parts", !.at = 1,
                              !.parts = get_sorted_parts(ebook.book)]
    /\ UNCHANGED <<executor_vars_but_tools, tts_vars, beside_ebook>>

\* The pieces and the files read for one part: its introduction if it is
\* there, then each of its files with headers shifted, each followed by a
\* blank line.
PartIntroPieces(script, book, part_name) ==
    LET path == IF script = "scripts/convert_to_ebook.py"
                THEN part_intro_path(part_name)
                ELSE part_intro_path_unnumbered(part_name)
    IN  IF Exists(book, path) THEN <<book.files[path], <<"\n", "\n">> >> ELSE <<>>
PartFilePieces(book, part_name) ==
    LET files == get_sorted_files(book, part_name)
    IN  Join([k \in 1..Len(files) |->
                <<shift_headers(book.files[part_name \o <<"/">> \o files[k]]),
                  <<"\n", "\n">> >>], <<>>)
PartFilesRead(book, part_name) ==
    LET files == get_sorted_files(book, part_name)
    IN  [k \in 1..Len(files) |-> part_name \o <<"/">> \o files[k]]

\* for part_name in parts: one turn of the loop
EbookCollectPart ==
    /\ ebook.called
    /\ ebook.phase = "parts"
    /\ ebook.at <= Len(ebook.parts)
    /\ LET part_name == ebook.parts[ebook.at]
       IN  ebook' = [ebook EXCEPT
                        !.at = @ + 1,
                        !.full_content = @ \o PartIntroPieces(ebook.script, ebook.book, part_name)
                                           \o PartFilePieces(ebook.book, part_name),
                        !.read = @ \o PartFilesRead(ebook.book, part_name)]
    /\ UNCHANGED <<executor_vars_but_tools, tts_vars, beside_ebook>>

\* return "".join(full_content)
EbookReturn ==
    /\ ebook.called
    /\ ebook.phase = "parts"
    /\ ebook.at > Len(ebook.parts)
    /\ ebook' = [ebook EXCEPT !.phase = "done", !.result = Join(ebook.full_content, <<>>)]
    /\ UNCHANGED <<executor_vars_but_tools, tts_vars, beside_ebook>>

NextEbook == EbookSortParts \/ EbookCollectPart \/ EbookReturn

SpecEbook == InitEbook /\ [][NextEbook]_vars

(* --------------------------- WavToMp3Converter -------------------------- *)
(* convert_book over the WAV keys of the source bucket, file after file.    *)
(* The first run may meet failures; a later run meets none.                 *)

\* A WAV key: "book_name/path/to/file.wav", or one without a "/".
KeyKinds == {"valid", "invalid"}

\* The steps of _process_single_file after its checks.
Mp3Steps == <<"download", "convert", "upload", "unlink">>

Mp3Keys == 1..Len(mp3.wav_files)

InitMp3 ==
    /\ ExecutorIdle
    /\ StoreIdle /\ LoadIdle /\ StreamIdle /\ EbookIdle
    /\ \E n \in 0..MaxFiles :
          \E wav_files \in [1..n -> KeyKinds], in_bucket \in SUBSET (1..n) :
              \E kept \in SUBSET in_bucket :
                  mp3 = [called |-> TRUE, wav_files |-> wav_files,
                         out_bucket |-> in_bucket, local_wav |-> {}, local_mp3 |-> kept,
                         run |-> 0, faulty |-> TRUE, phase |-> "idle", at |-> 0,
                         step |-> "none",
                         log |-> [f \in 1..n |-> <<>>],
                         visited |-> {},
                         failed_at |-> [f \in 1..n |-> "none"],
                         out_bucket0 |-> in_bucket]

\* The file is dealt with: the loop of convert_book goes on, or is through.
NextKey(state) ==
    IF state.at < Len(state.wav_files)
    THEN [state EXCEPT !.at = @ + 1, !.step = "check"]
    ELSE [state EXCEPT !.at = @ + 1, !.step = "none", !.phase = "finished"]

\* except Exception as e: tqdm.write(...): the error is printed, the file
\* is left, the loop goes on.
Caught(state, step) ==
    NextKey([state EXCEPT !.failed_at[state.at] =
                              IF state.run = 1 THEN step ELSE @])

\* converter.convert_book(book_name): the keys are listed and the loop begins.
ConvertBook ==
    /\ mp3.called
    /\ mp3.phase \in {"idle", "finished"}
    /\ mp3.run < MaxRuns
    /\ mp3' = IF Len(mp3.wav_files) = 0
              THEN [mp3 EXCEPT !.run = @ + 1, !.faulty = (mp3.run = 0),
                               !.phase = "finished", !.visited = {}]
              ELSE [mp3 EXCEPT !.run = @ + 1, !.faulty = (mp3.run = 0),
                               !.phase = "running", !.at = 1, !.step = "check",
                               !.visited = {},
                               !.log = [f \in Mp3Keys |-> <<>>]]
    /\ UNCHANGED <<executor_vars_but_tools, tts_vars, beside_mp3>>

\* "if mp3_path.exists(): ... return"
local_mp3_skips(local_mp3, f) == f \in local_mp3

\* _process_single_file up to "Processing: ...": an invalid key, an MP3 in
\* the output bucket or a local MP3 end it.
ProcessSingleFile ==
    /\ mp3.called
    /\ mp3.phase = "running"
    /\ mp3.step = "check"
    /\ LET f == mp3.at
           seen == [mp3 EXCEPT !.visited = @ \cup {f}]
       IN  mp3' = IF \/ mp3.wav_files[f] = "invalid"
                     \/ f \in mp3.out_bucket
                     \/ local_mp3_skips(mp3.local_mp3, f)
                  THEN NextKey(seen)
                  ELSE [seen EXCEPT !.step = "download"]
    /\ UNCHANGED <<executor_vars_but_tools, tts_vars, beside_mp3>>

\* self._download_wav(s3_key, wav_path)
DownloadWav ==
    /\ mp3.called
    /\ mp3.phase = "running"
    /\ mp3.step = "download"
    /\ LET f == mp3.at
       IN  \/ mp3' = [mp3 EXCEPT !.local_wav = @ \cup {f},
                                 !.log[f] = Append(@, "download"),
                                 !.step = "convert"]
           \/ /\ mp3.faulty
              /\ mp3' = Caught(mp3, "download")
    /\ UNCHANGED <<executor_vars_but_tools, tts_vars, beside_mp3>>

\* self._convert_to_mp3(wav_path, mp3_path): ffmpeg writes the MP3, or ends
\* with a non-zero code, having written an output file or not.
ConvertToMp3 ==
    /\ mp3.called
    /\ mp3.phase = "running"
    /\ mp3.step = "convert"
    /\ LET f == mp3.at
       IN  \/ mp3' = [mp3 EXCEPT !.local_mp3 = @ \cup {f},
                                 !.log[f] = Append(@, "convert"),
                                 !.step = "upload"]
           \/ /\ mp3.faulty
              /\ \E written \in BOOLEAN :
                    mp3' = Caught([mp3 EXCEPT !.local_mp3 =
                                      IF written THEN @ \cup {f} ELSE @], "convert")
    /\ UNCHANGED <<executor_vars_but_tools, tts_vars, beside_mp3>>

\* self._upload_mp3(mp3_path, mp3_s3_key)
UploadMp3 ==
    /\ mp3.called
    /\ mp3.phase = "running"
    /\ mp3.step = "upload"
    /\ LET f == mp3.at
       IN  \/ mp3' = [mp3 EXCEPT !.out_bucket = @ \cup {f},
                                 !.log[f] = Append(@, "upload"),
                                 !.step = "unlink"]
           \/ /\ mp3.faulty
              /\ mp3' = Caught(mp3, "upload")
    /\ UNCHANGED <<executor_vars_but_tools, tts_vars, beside_mp3>>

\* wav_path.unlink(): the local WAV is deleted, the local MP3 is kept.
UnlinkWav ==
    /\ mp3.called
    /\ mp3.phase = "running"
    /\ mp3.step = "unlink"
    /\ LET f == mp3.at
       IN  mp3' = NextKey([mp3 EXCEPT !.local_wav = @ \ {f},
                                      !.log[f] = Append(@, "unlink")])
    /\ UNCHANGED <<executor_vars_but_tools, tts_vars, beside_mp3>>

NextMp3 ==
    \/ ConvertBook
    \/ ProcessSingleFile
    \/ DownloadWav
    \/ ConvertToMp3
    \/ UploadMp3
    \/ UnlinkWav

SpecMp3 == InitMp3 /\ [][NextMp3]_vars

(* ======================= the claims about the code ===================== *)

(* What the plan itself says the units and their order are, read off the    *)
(* plan tree and not off the executor's chapter_specs.                      *)

\* The chapters of the parts before part p.
ChaptersBefore(plan, p) == SumSeq([q \in 1..(p - 1) |-> Len(plan.parts[q].chapters)])

\* The number of chapter c of part p, counted through the whole book.
GlobalNumber(plan, p, c) == ChaptersBefore(plan, p) + c

PlanChapters(plan) ==
    UNION {{<<p, c>> : c \in 1..Len(plan.parts[p].chapters)} : p \in 1..Len(plan.parts)}

PlanUnits ==
    IF mode = "section"
    THEN UNION {
            LET g == GlobalNumber(book_plan, pc_[1], pc_[2])
            IN  {Unit("intro", pc_[1], g, 0)} \cup
                {Unit("section", pc_[1], g, s) :
                   s \in 1..Len(book_plan.parts[pc_[1]].chapters[pc_[2]].sections)} :
            pc_ \in PlanChapters(book_plan)}
    ELSE {Unit("back_cover", 0, 0, 0)}
         \cup {Unit("part_intro", p, 0, 0) : p \in 1..Len(book_plan.parts)}
         \cup {Unit("chapter", pc_[1], GlobalNumber(book_plan, pc_[1], pc_[2]), 0) :
                 pc_ \in PlanChapters(book_plan)}

\* Document order: the back cover, the part introductions by part, then the
\* chapters by number, a chapter's introduction before its sections 1, 2, ...
Rank(u) ==
    CASE u.kind = "back_cover" -> 0
      [] u.kind = "part_intro" -> u.part_number
      [] OTHER -> 1000 + (100 * u.chapter_number) + u.section_number

Present(filesystem) == {u \in PlanUnits : PathOf(u) \in DOMAIN filesystem.files}
Absent(filesystem) == {u \in PlanUnits : PathOf(u) \notin DOMAIN filesystem.files}

Occurrences(log, u) == Cardinality({k \in 1..Len(log) : log[k] = u})

\* C1: a run that follows a completed run of the same plan on the store that
\* run left calls the backend for nothing, saves nothing, and leaves every
\* stored file as it was.
C1_SecondRunIdempotent ==
    prev = "done" =>
        /\ llm_log = <<>>
        /\ save_log = <<>>
        /\ inflight = NoCall
        /\ fs = fs0
        /\ Absent(fs0) = {}

\* C1 witness: the second run of a plan of three units or more, two of them
\* generated by the first run, has completed.
C1_Witness ==
    /\ prev = "done"
    /\ pc = "done"
    /\ Cardinality(PlanUnits) >= 3
    /\ Cardinality({q \in DOMAIN fs.files : fs.files[q] # OldText}) >= 2

\* C2: a completed section-mode pass has called the backend exactly once for
\* each unit that was absent when it started, total_units - |S| calls in all,
\* and no pass saves a unit that was present when it started.
C2_PartialResume ==
    mode = "section" =>
        /\ \A k \in 1..Len(save_log) : PathOf(save_log[k]) \notin DOMAIN fs0.files
        /\ \A k \in 1..Len(llm_log) : PathOf(llm_log[k]) \notin DOMAIN fs0.files
        /\ pc = "done" =>
              LET absent0 == Absent(fs0)
              IN  /\ Len(llm_log) = Cardinality(PlanUnits) - Cardinality(Present(fs0))
                  /\ Range(llm_log) = absent0
                  /\ Len(llm_log) = Cardinality(absent0)

\* C2 witness: a section-mode pass has completed on a store that held one
\* chapter's introduction and its first section, and not its second section.
C2_Witness ==
    /\ mode = "section"
    /\ pc = "done"
    /\ Unit("intro", 1, 1, 0) \in Present(fs0)
    /\ Unit("section", 1, 1, 1) \in Present(fs0)
    /\ Unit("section", 1, 1, 2) \in Absent(fs0)
    /\ Len(llm_log) >= 1

\* C3: in every step of every run, a file that exists goes on existing with
\* the content it has, and a save writes a unit that did not exist.
C3_AbsentToPresentOnly ==
    [][ /\ \A q \in DOMAIN fs.files :
              q \in DOMAIN fs'.files /\ fs'.files[q] = fs.files[q]
        /\ save_log' # save_log /\ save_log' # <<>> =>
              PathOf(save_log'[Len(save_log')]) \notin DOMAIN fs.files ]_vars

\* C3 witness: a run that follows a run a backend error ended has saved a unit
\* beside files it found.
C3_Witness ==
    /\ prev = "aborted"
    /\ Len(save_log) >= 1
    /\ Present(fs0) # {}
    /\ \E q \in DOMAIN fs0.files : fs0.files[q] # OldText

\* C4: when llm() raised for unit u the run has ended there: u was called once
\* and is the last call, u is neither saved nor in the store, everything the
\* run saved precedes u and is in the store; and the first call of the run
\* after it is for the first unit of the document absent from the store.
C4_ErrorHaltsAndResumes ==
    /\ failed # NoUnit =>
          /\ pc = "aborted"
          /\ llm_log # <<>> /\ llm_log[Len(llm_log)] = failed
          /\ Occurrences(llm_log, failed) = 1
          /\ failed \in PlanUnits
          /\ PathOf(failed) \notin DOMAIN fs.files
          /\ \A k \in 1..Len(save_log) :
                /\ save_log[k] # failed
                /\ Rank(save_log[k]) < Rank(failed)
                /\ PathOf(save_log[k]) \in DOMAIN fs.files
          /\ \A k \in 1..Len(llm_log) : Rank(llm_log[k]) <= Rank(failed)
    /\ prev = "aborted" /\ llm_log # <<>> =>
          LET absent0 == Absent(fs0)
          IN  /\ llm_log[1] \in absent0
              /\ \A v \in absent0 : Rank(llm_log[1]) <= Rank(v)

\* C4 witness: the run after one that failed at a section, with units saved
\* before it, has made its first call.
C4_Witness ==
    /\ prev = "aborted"
    /\ llm_log # <<>>
    /\ llm_log[1].kind = "section"
    /\ \E q \in DOMAIN fs0.files : fs0.files[q] # OldText
    /\ failed # NoUnit

\* The chapter of the plan that carries number g, as <<part, place in the part>>.
ChapterAt(plan, g) ==
    CHOOSE pc_ \in PlanChapters(plan) : GlobalNumber(plan, pc_[1], pc_[2]) = g

\* The complete texts unit u may hold: what an earlier run left, or the whole
\* formatted text of one of the backend's answers.
WholeTexts(u) ==
    {OldText} \cup
    CASE u.kind = "back_cover" -> {book_plan.back_cover_description}
      [] u.kind = "part_intro" ->
            {part_intro_content(book_plan.book_language, u.part_number,
                                book_plan.parts[u.part_number])}
      [] OTHER ->
            LET at == ChapterAt(book_plan, u.chapter_number)
                chapter == book_plan.parts[at[1]].chapters[at[2]]
                spec == [chapter_number |-> u.chapter_number, chapter |-> chapter]
            IN  CASE u.kind = "intro" ->
                        {intro_full_text(spec, text) : text \in Responses}
                  [] u.kind = "section" ->
                        {full_section_text(chapter.sections[u.section_number], text) :
                           text \in Responses}
                  [] u.kind = "chapter" ->
                        {chapter_content(spec, text) : text \in Responses}

\* C5: whenever no write is in progress, the process having been killed at
\* any point included, every unit whose existence check is true holds a
\* complete text.
C5_NoPartialUnit ==
    pc # "writing" =>
        \A u \in PlanUnits :
            PathOf(u) \in DOMAIN fs.files => fs.files[PathOf(u)] \in WholeTexts(u)

\* The content kinds the backend writes.
LlmKinds == {"intro", "section", "chapter"}

\* How many units of the plan come before u in document order.
UnitsBefore(units, u) == Cardinality({v \in units : Rank(v) < Rank(u)})

\* C6: in a run that started on an empty store the k-th unit saved is the k-th
\* unit of the document and the k-th unit generated is the k-th generated unit
\* of the document (section mode: each chapter's introduction, then its
\* sections 1..k, chapter after chapter; chapter mode: the back cover, the part
\* introductions by part, the chapters by number); a completed run saved all.
C6_DocumentOrder ==
    DOMAIN fs0.files = {} =>
        LET units == PlanUnits
            generated == {v \in units : v.kind \in LlmKinds}
        IN  /\ \A k \in 1..Len(save_log) :
                  save_log[k] \in units /\ UnitsBefore(units, save_log[k]) = k - 1
            /\ \A k \in 1..Len(llm_log) :
                  llm_log[k] \in generated /\ UnitsBefore(generated, llm_log[k]) = k - 1
            /\ pc = "done" => Len(save_log) = Cardinality(units)

\* C6 witness: a section-mode run on an empty store has completed, having
\* saved chapter 1 with its two sections and then chapter 2.
C6_Witness ==
    /\ DOMAIN fs0.files = {}
    /\ mode = "section"
    /\ pc = "done"
    /\ Len(save_log) = 4
    /\ save_log[3] = Unit("section", 1, 1, 2)
    /\ save_log[4].kind = "intro"

\* The units of the chapter <<part, place>> of the plan.
UnitsOfChapter(at) ==
    {u \in PlanUnits : u.kind \in LlmKinds /\
                       u.chapter_number = GlobalNumber(book_plan, at[1], at[2])}

\* C7: the calls begun and not ended number one while execute() is blocked in
\* llm() and none otherwise; and while it is blocked in the call for unit u,
\* every unit before u in document order is in the store, and so is every
\* chapter and every section the prompt lists as done ("[x]").
C7_SequentialGeneration ==
    LET ended == Cardinality({k \in 1..Len(save_log) : save_log[k].kind \in LlmKinds})
                 + (IF failed # NoUnit THEN 1 ELSE 0)
    IN  /\ Len(llm_log) - ended = (IF pc = "llm" THEN 1 ELSE 0)
        /\ (inflight # NoCall) <=> (pc = "llm")
        /\ pc = "llm" =>
              LET u == inflight.unit
                  units == PlanUnits
              IN  /\ u = llm_log[Len(llm_log)]
                  /\ \A v \in units :
                        Rank(v) < Rank(u) => PathOf(v) \in DOMAIN fs.files
                  /\ \A at \in PlanChapters(book_plan) :
                        LET chapter == book_plan.parts[at[1]].chapters[at[2]]
                        IN  /\ Contains(inflight.prompt, <<"[x]", " ">> \o chapter.name) =>
                                  \A v \in UnitsOfChapter(at) :
                                      PathOf(v) \in DOMAIN fs.files
                            /\ mode = "section" =>
                                  \A s \in 1..Len(chapter.sections) :
                                      Contains(inflight.prompt,
                                               <<"[x]", " ">> \o chapter.sections[s].name) =>
                                          PathOf(Unit("section", at[1],
                                                      GlobalNumber(book_plan, at[1], at[2]),
                                                      s)) \in DOMAIN fs.files

\* C7 witness: execute() is blocked in the call for the second section of the
\* second chapter, whose prompt lists a chapter and a section as done.
C7_Witness ==
    /\ pc = "llm"
    /\ inflight.unit.kind = "section"
    /\ inflight.unit.chapter_number = 2
    /\ inflight.unit.section_number = 2
    /\ Contains(inflight.prompt, <<"[x]", " ", "Ch">>)
    /\ Contains(inflight.prompt, <<"[x]", " ", "S">>)

\* C8: once _build_chapter_specs has run, chapter_specs holds one spec per
\* chapter of the plan in document order; the k-th has chapter_number k, counted
\* through the whole book, the part_number of its part's place in the plan, and
\* that part and chapter; the sections saved carry numbers 1..m of their chapter.
C8_ChapterSpecsNumbering ==
    pc \notin {"idle", "back_cover", "part_intros"} =>
        /\ Len(chapter_specs) = Cardinality(PlanChapters(book_plan))
        /\ \A k \in 1..Len(chapter_specs) : chapter_specs[k].chapter_number = k
        /\ \A at \in PlanChapters(book_plan) :
              LET g == GlobalNumber(book_plan, at[1], at[2])
                  part == book_plan.parts[at[1]]
              IN  /\ chapter_specs[g].part_number = at[1]
                  /\ chapter_specs[g].part = part
                  /\ chapter_specs[g].chapter = part.chapters[at[2]]
                  /\ mode = "section" =>
                        /\ chapter_specs[g].sections = part.chapters[at[2]].sections
                        /\ {v.section_number :
                              v \in {w \in Range(save_log) :
                                       w.kind = "section" /\ w.chapter_number = g}}
                              \subseteq 1..Len(part.chapters[at[2]].sections)
                        /\ pc = "done" =>
                              \A s \in 1..Len(part.chapters[at[2]].sections) :
                                  get_section_path(at[1], g, s) \in DOMAIN fs.files

\* C8 witness: the specs of a plan of two parts are built, the first part
\* with two chapters, the third chapter being the first of part 2.
C8_Witness ==
    /\ pc = "chapters"
    /\ Len(book_plan.parts) = 2
    /\ Len(book_plan.parts[1].chapters) = 2
    /\ Len(chapter_specs) = 3
    /\ chapter_specs[3].part_number = 2
    /\ chapter_specs[3].chapter_number = 3

\* C10: the prompt of the call for section j of chapter i ends with the
\* chapter progress (sections 1..j-1 "[x]", section j current with the marker,
\* the later sections "[ ]") followed by the book progress (chapters 1..i-1
\* "[x]", chapter i current, the later chapters "[ ]"), which does not depend on j.
C10_SectionPromptProgress ==
    pc = "llm" /\ inflight.unit.kind = "section" =>
        LET i == inflight.unit.chapter_number
            j == inflight.unit.section_number
            here == <<" ", "<--", " ", "YOU'RE", " ", "CURRENTLY", " ", "HERE">>
            Line(k, cur, name) ==
                IF k < cur THEN <<"[x]", " ">> \o name
                ELSE IF k = cur THEN <<"[ ]", " ">> \o name \o here
                ELSE <<"[ ]", " ">> \o name
            ChapterOf(g) ==
                LET at == ChapterAt(book_plan, g)
                IN  book_plan.parts[at[1]].chapters[at[2]]
            sections == ChapterOf(i).sections
            chapter_progress ==
                Join([k \in 1..Len(sections) |-> Line(k, j, sections[k].name)], <<"\n">>)
            book_progress ==
                Join([g \in 1..Cardinality(PlanChapters(book_plan)) |->
                        Line(g, i, ChapterOf(g).name)], <<"\n">>)
            tail == <<"Current chapter progress:", "\n", "\n">> \o chapter_progress
                    \o <<"\n", "\n", "Current book progress:", "\n", "\n">>
                    \o book_progress
            prompt == inflight.prompt
        IN  /\ Len(prompt) > Len(tail)
            /\ SubSeq(prompt, Len(prompt) - Len(tail) + 1, Len(prompt)) = tail
            /\ Contains(prompt, <<"The section name:", " ">> \o sections[j].name)

\* C10 witness: the call for the second section of the second chapter is in
\* progress.
C10_Witness ==
    /\ pc = "llm"
    /\ inflight.unit = Unit("section", 1, 2, 2)
    /\ Len(book_plan.parts[1].chapters) = 2

(* ------------------------- show_progress alone ------------------------- *)

\* text.split("\n")
RECURSIVE SplitLines(_)
SplitLines(text) ==
    IF \A k \in 1..Len(text) : text[k] # "\n" THEN <<text>>
    ELSE LET n == CHOOSE k \in 1..Len(text) :
                     text[k] = "\n" /\ \A h \in 1..(k - 1) : text[h] # "\n"
         IN  <<SubSeq(text, 1, n - 1)>> \o SplitLines(SubSeq(text, n + 1, Len(text)))

\* C9: show_progress(done, current, todo) is len(done) + 1 + len(todo) lines
\* joined by newlines: "[x] <label>" for each done item in input order, then
\* "[ ] <label> <-- YOU'RE CURRENTLY HERE" for current, the marker occurring
\* once, then "[ ] <label>" for each todo item in input order.
C9_ShowProgressLines ==
    sp.called =>
        LET lines == SplitLines(sp.result)
            nd == Len(sp.done)
            nt == Len(sp.todo)
        IN  /\ Len(lines) = nd + 1 + nt
            /\ \A k \in 1..nd : lines[k] = <<"[x]", " ">> \o sp.done[k]
            /\ lines[nd + 1] = <<"[ ]", " ">> \o sp.current
                               \o <<" ", "<--", " ", "YOU'RE", " ", "CURRENTLY", " ", "HERE">>
            /\ \A k \in 1..nt : lines[nd + 1 + k] = <<"[ ]", " ">> \o sp.todo[k]
            /\ Cardinality({k \in 1..Len(sp.result) : sp.result[k] = "<--"}) = 1

\* C9 witness: show_progress has returned for two done items and two
\* different todo items.
C9_Witness ==
    /\ sp.called
    /\ Len(sp.done) = 2
    /\ Len(sp.todo) = 2
    /\ sp.todo[1] # sp.todo[2]
    /\ sp.done[1] # sp.done[2]

(* ------------------------- progress in prompts ------------------------- *)

\* How many progress renderings a text holds: each has one HERE marker.
MarkerCount(text) == Cardinality({k \in 1..Len(text) : text[k] = "<--"})

\* The progress line of item k of a group whose item cur is being written.
ExpectedLine(k, cur, name) ==
    IF k < cur THEN <<"[x]", " ">> \o name
    ELSE IF k = cur
         THEN <<"[ ]", " ">> \o name
              \o <<" ", "<--", " ", "YOU'RE", " ", "CURRENTLY", " ", "HERE">>
         ELSE <<"[ ]", " ">> \o name

\* Chapter g of the plan, counted through the whole book.
PlanChapter(g) ==
    LET at == ChapterAt(book_plan, g)
    IN  book_plan.parts[at[1]].chapters[at[2]]

\* The rendering of chapter i's place among all chapters of the plan.
ExpectedBookProgress(i) ==
    Join([g \in 1..Cardinality(PlanChapters(book_plan)) |->
            ExpectedLine(g, i, PlanChapter(g).name)], <<"\n">>)

C12_CostTiers ==
    report.called =>
        LET p == report.usage.prompt_token_count
            c == report.usage.candidates_token_count
            t == report.usage.thoughts_token_count
            r == report.result
        IN  /\ p > 200000 => r.total_cost = (4 * p) + (18 * (c + t))
            /\ p <= 200000 => r.total_cost = (2 * p) + (12 * (c + t))
            /\ r.total_cost = r.input_cost + r.output_cost
            /\ r.output_tokens = c + t
            /\ r.input_cost = (IF p > 200000 THEN 4 ELSE 2) * p

\* C12 witness: the estimate of a prompt of exactly 200000 tokens with
\* candidates and thoughts has been computed.
C12_Witness ==
    /\ report.called
    /\ report.usage.prompt_token_count = 200000
    /\ report.usage.candidates_token_count = 10000
    /\ report.usage.thoughts_token_count = 5000

\* The estimate the claims give for a usage, in millionths of a dollar.
ExpectedCost(usage) ==
    IF usage.prompt_token_count > 200000
    THEN (4 * usage.prompt_token_count)
         + (18 * (usage.candidates_token_count + usage.thoughts_token_count))
    ELSE (2 * usage.prompt_token_count)
         + (12 * (usage.candidates_token_count + usage.thoughts_token_count))

RECURSIVE SumOver(_, _)
SumOver(S, log) ==
    IF S = {} THEN 0
    ELSE LET usage == CHOOSE x \in S : TRUE
         IN  (log[usage] * ExpectedCost(usage)) + SumOver(S \ {usage}, log)

RECURSIVE CountOver(_, _)
CountOver(S, log) ==
    IF S = {} THEN 0
    ELSE LET usage == CHOOSE x \in S : TRUE
         IN  log[usage] + CountOver(S \ {usage}, log)

\* The units of a log the backend wrote.
GeneratedIn(log) == Cardinality({k \in 1..Len(log) : log[k].kind \in LlmKinds})

\* C13: tracker.total_cost is the sum of the estimates of the backend calls
\* that have returned in this run: 0 at the start of the run, larger by the
\* call's estimate when a call returns, the same after every other step
\* (skips, back-cover and part-introduction saves), never smaller.
C13_TotalCostIsSumOfCalls ==
    [][ /\ total_cost' = SumOver(DOMAIN usage_log', usage_log')
        /\ CountOver(DOMAIN usage_log', usage_log') = GeneratedIn(save_log')
        /\ pc \in {"idle", "done", "aborted"} => total_cost' = 0
        /\ pc \in {"back_cover", "part_intros", "chapters"} => total_cost' = total_cost
        /\ pc = "llm" /\ pc' # "aborted" => total_cost' > total_cost
        /\ pc = "llm" /\ pc' = "aborted" => total_cost' = total_cost
      ]_vars

\* C13 witness: a chapter-mode run that found one chapter in the store has
\* completed, having saved the back cover and a part introduction and called
\* the backend at both pricing tiers.
C13_Witness ==
    /\ mode = "chapter"
    /\ pc = "done"
    /\ \A usage \in DOMAIN usage_log : usage_log[usage] >= 1
    /\ \E u \in Present(fs0) : u.kind = "chapter"
    /\ \E k \in 1..Len(save_log) : save_log[k].kind = "back_cover"
    /\ \E k \in 1..Len(save_log) : save_log[k].kind = "part_intro"
    /\ total_cost > 0

(* ------------------------------ the audio path -------------------------- *)

RECURSIVE SumCosts(_)
SumCosts(S) ==
    IF S = {} THEN 0
    ELSE LET f == CHOOSE x \in S : TRUE
         IN  worker[f].cost + SumCosts(S \ {f})

\* C14: a task reads and writes total_cost only while it holds cost_lock, and
\* total_cost is at all times the sum of the costs of the synthesis calls
\* whose increment is made: once all workers have finished, the sum of the
\* costs of all successful calls.
C14_CostUnderLock ==
    /\ \A f \in FileIds : worker[f].at \in {"load", "store"} => cost_lock = f
    /\ tts_total_cost =
          SumCosts({f \in FileIds : outcome[f] = "audio" /\ worker[f].at \in {"write", "end"}})
    /\ Running = {} =>
          tts_total_cost = SumCosts({f \in FileIds : outcome[f] = "audio"})

\* C14 witness: three files have been synthesized by two workers and the run
\* has finished.
C14_Witness ==
    /\ main_pc = "finished"
    /\ Len(files_to_process) = 3
    /\ \A f \in FileIds : outcome[f] = "audio"
    /\ worker[1].cost # worker[2].cost
    /\ tts_total_cost >= 11

\* C15: a file whose backend call raised or answered without audio gets no
\* artifact and adds no cost, and its task ends like any other; when the run
\* has finished every task has run to its end, and a file has an artifact
\* exactly when it had one before or its own call answered with audio.
C15_ErrorStaysInTask ==
    /\ \A f \in FileIds :
          outcome[f] \in {"error", "empty"} =>
              /\ f \notin audio
              /\ worker[f].cost = 0
              /\ worker[f].at = "end"
              /\ futures[f] = "finished"
    /\ main_pc = "finished" =>
          \A f \in FileIds :
              /\ futures[f] = "finished"
              /\ f \in audio <=> (f \in audio0 \/ outcome[f] = "audio")
              /\ (files_to_process[f] = "text" /\ f \notin audio0) => f \in tts_calls

\* C15 witness: the run has finished; the call for the first file raised, the
\* second answered without audio, and the third file has its artifact.
C15_Witness ==
    /\ main_pc = "finished"
    /\ Len(files_to_process) = 3
    /\ outcome[1] = "error"
    /\ outcome[2] = "empty"
    /\ outcome[3] = "audio"
    /\ audio = {3}

\* C16: the interrupt handler cancels every queued future and exits while the
\* running tasks are still running; a cancelled task never starts, calls the
\* backend or writes an artifact; nothing is submitted or started from the
\* queue after the exit; no artifact is ever removed.
C16_InterruptCancelsQueued ==
    [][ /\ main_pc = "stopping" /\ main_pc' = "exited" =>
              \A f \in FileIds :
                  /\ futures[f] = "pending" => futures'[f] = "cancelled"
                  /\ futures[f] = "running" =>
                        futures'[f] = "running" /\ worker'[f] = worker[f]
        /\ \A f \in FileIds :
              futures[f] = "cancelled" =>
                  /\ futures'[f] = "cancelled"
                  /\ worker'[f] = NoTask
                  /\ f \notin tts_calls'
                  /\ f \in audio' => f \in audio0
        /\ main_pc = "exited" =>
              /\ main_pc' = "exited"
              /\ \A f \in FileIds :
                    /\ futures'[f] # "pending"
                    /\ futures[f] = "unsubmitted" => futures'[f] = "unsubmitted"
        /\ audio \subseteq audio'
      ]_vars

\* C16 witness: the run has exited on an interrupt with one artifact written,
\* one task still running and one future cancelled.
C16_Witness ==
    /\ main_pc = "exited"
    /\ \E f \in FileIds : f \in audio /\ f \notin audio0
    /\ \E f \in FileIds : futures[f] = "running" /\ worker[f].at = "call"
    /\ \E f \in FileIds : futures[f] = "cancelled"

(* ---------------------------- the saved texts --------------------------- *)

\* s without the whitespace before its first and after its last other token.
Trimmed(s) ==
    LET inked == {k \in 1..Len(s) : s[k] \notin {" ", "\n", "\t"}}
    IN  IF inked = {} THEN <<>>
        ELSE SubSeq(s, CHOOSE i \in inked : \A k \in inked : i <= k,
                       CHOOSE j \in inked : \A k \in inked : k <= j)

\* The text a unit saved in this run holds.
SavedText(u) == fs.files[PathOf(u)]

\* "# <chapter_number>. <chapter name>", the name read off the plan.
ChapterHeading(u) ==
    <<"#", " ">> \o Str(u.chapter_number) \o <<".", " ">> \o PlanChapter(u.chapter_number).name

\* "<marks> <section name>", the name read off the plan.
SectionHeading(marks, u) ==
    <<marks, " ">> \o PlanChapter(u.chapter_number).sections[u.section_number].name

\* Whether text is heading, a blank line and one of the backend's answers,
\* the whole trimmed.
HeadedAndTrimmed(text, heading) ==
    /\ text \in {Trimmed(heading \o <<"\n", "\n">> \o t) : t \in PaddedResponses}
    /\ text # <<>>
    /\ text[1] \notin {" ", "\n", "\t"}
    /\ text[Len(text)] \notin {" ", "\n", "\t"}
    /\ SubSeq(text, 1, Len(heading)) = heading
    /\ Len(text) > Len(heading) =>
          text[Len(heading) + 1] = "\n" /\ text[Len(heading) + 2] = "\n"

\* C17: in section mode the text saved for a generated unit is its heading, a
\* blank line and the backend's answer, the whole without leading or trailing
\* whitespace; the heading is "# <chapter_number>. <chapter name>" for a
\* chapter introduction and "## <section name>" for a section.
C17_SectionModeSavedText ==
    mode = "section" =>
        \A k \in 1..Len(save_log) :
            LET u == save_log[k]
            IN  HeadedAndTrimmed(SavedText(u),
                                 IF u.kind = "intro" THEN ChapterHeading(u)
                                 ELSE SectionHeading("##", u))

\* C17 witness: a section-mode run has saved an introduction and a section
\* for which the backend answered with whitespace around the text, and a unit
\* for which it answered with whitespace only.
C17_Witness ==
    /\ mode = "section"
    /\ \E k \in 1..Len(save_log) :
          /\ save_log[k].kind = "intro"
          /\ SavedText(save_log[k]) =
                ChapterHeading(save_log[k]) \o <<"\n", "\n", "\n", "Generated", " ", "content">>
    /\ \E k \in 1..Len(save_log) :
          /\ save_log[k].kind = "section"
          /\ SavedText(save_log[k]) =
                SectionHeading("##", save_log[k])
                \o <<"\n", "\n", "\n", "Generated", " ", "content">>
    /\ \E k \in 1..Len(save_log) :
          SavedText(save_log[k]) = (IF save_log[k].kind = "intro"
                                    THEN ChapterHeading(save_log[k])
                                    ELSE SectionHeading("##", save_log[k]))

\* Whether the text of a part introduction begins with a top-level heading
\* carrying a label of one word, the part's number and name.
PartHeaded(text, u) ==
    LET tail == <<" ">> \o Str(u.part_number) \o <<":", " ">>
                \o book_plan.parts[u.part_number].name
    IN  /\ Len(text) >= 2 /\ text[1] = "#" /\ text[2] = " "
        /\ \E n \in 1..Len(text) :
              /\ Len(text) >= 2 + n + Len(tail)
              /\ \A i \in 3..(2 + n) : text[i] \notin {" ", "\n"}
              /\ SubSeq(text, 3 + n, 2 + n + Len(tail)) = tail

\* The headings of the saved part introductions and chapter texts.
TopLevelHeadings ==
    \A k \in 1..Len(save_log) :
        LET u == save_log[k]
        IN  /\ u.kind = "part_intro" => PartHeaded(SavedText(u), u)
            /\ u.kind \in {"intro", "chapter"} =>
                  SubSeq(SavedText(u), 1, Len(ChapterHeading(u))) = ChapterHeading(u)

\* The heading of the saved sections, marks being its level.
SectionHeadings(marks) ==
    \A k \in 1..Len(save_log) :
        LET u == save_log[k]
        IN  u.kind = "section" =>
                SubSeq(SavedText(u), 1, Len(SectionHeading(marks, u)))
                    = SectionHeading(marks, u)

\* C18 as claimed: every saved section begins with a third-level heading
\* ("### ") carrying the section name; part introductions and chapter texts
\* begin with a top-level heading carrying the unit's number and name.
C18_SectionHeadingThirdLevel == SectionHeadings("###") /\ TopLevelHeadings

\* C18 amended: every saved section begins with a second-level heading
\* ("## ") carrying just the section name; part introductions and chapter
\* texts begin with a top-level heading carrying the unit's number and name.
C18_HeadingsByLevel == SectionHeadings("##") /\ TopLevelHeadings

\* C18 witness: a section-mode run has saved the second section of a chapter
\* under the heading "## <its name>".
C18_Witness ==
    /\ mode = "section"
    /\ pc = "done"
    /\ \E k \in 1..Len(save_log) :
          /\ save_log[k].kind = "section"
          /\ save_log[k].section_number = 2
          /\ SavedText(save_log[k])[1] = "##"

\* C19: in chapter mode the text saved for a chapter is
\* "# <chapter_number>. <chapter name>", a blank line and the backend's
\* answer, the whole without leading or trailing whitespace.
C19_ChapterTextTrimmed ==
    mode = "chapter" =>
        \A k \in 1..Len(save_log) :
            save_log[k].kind = "chapter" =>
                HeadedAndTrimmed(SavedText(save_log[k]), ChapterHeading(save_log[k]))

\* C20: execute() deals with the back cover before any other unit: absent
\* at the start, it is saved once, first, holding exactly the plan's
\* back_cover_description, and no backend call is made before it is there;
\* present at the start, it is not saved.
C20_BackCoverFirst ==
    LET back_cover == Unit("back_cover", 0, 0, 0)
    IN  /\ get_back_cover_path \in DOMAIN fs0.files => back_cover \notin Range(save_log)
        /\ get_back_cover_path \notin DOMAIN fs0.files =>
              /\ Occurrences(save_log, back_cover) <= 1
              /\ save_log # <<>> => save_log[1] = back_cover
              /\ llm_log # <<>> => back_cover \in Range(save_log)
              /\ pc = "done" => back_cover \in Range(save_log)
              /\ back_cover \in Range(save_log) =>
                    fs.files[get_back_cover_path] = book_plan.back_cover_description

(* ------------------------- part introductions -------------------------- *)

\* Language tags handed to get_part_label: the supported ones and others.
LanguageTags == Languages \cup {"fr", "EN", ""}

\* The word for "Part" the localization table gives for a tag.
ExpectedLabel(tag) ==
    IF tag = "ru" THEN <<"U+0427", "U+0430", "U+0441", "U+0442", "U+044C">>
    ELSE IF tag = "de" THEN <<"Teil">>
    ELSE <<"Part">>

\* "# <label> <n>: <part name>\n\n<part introduction>", read off the plan.
ExpectedPartIntro(n) ==
    <<"#", " ">> \o ExpectedLabel(book_plan.book_language) \o <<" ">> \o Str(n)
    \o <<":", " ">> \o book_plan.parts[n].name \o <<"\n", "\n">>
    \o book_plan.parts[n].introduction

\* What a completed run has done about the introduction of part n.
PartIntroSettled(n) ==
    LET u == Unit("part_intro", n, 0, 0)
    IN  IF PathOf(u) \in DOMAIN fs0.files
        THEN /\ u \notin Range(save_log)
             /\ fs.files[PathOf(u)] = fs0.files[PathOf(u)]
        ELSE /\ Occurrences(save_log, u) = 1
             /\ PathOf(u) \in DOMAIN fs.files
             /\ fs.files[PathOf(u)] = ExpectedPartIntro(n)

\* C21: a completed execute() has saved, for every part n (parts without
\* chapters included) whose introduction was absent, exactly
\* "# <label> <n>: <part name>\n\n<part introduction>" under part number n and
\* has left every introduction that existed alone; the label is the Cyrillic
\* word for ru, "Teil" for de, "Part" for en and for any other tag.
C21_PartIntrosSaved ==
    /\ \A tag \in LanguageTags : get_part_label(tag) = ExpectedLabel(tag)
    /\ pc = "done" => \A n \in 1..Len(book_plan.parts) : PartIntroSettled(n)

(* --------------------------- the storage layout ------------------------ *)

\* Part, chapter and section numbers on both sides of 10 and of 100.
KeyNumbers == {1, 2, 9, 10, 11, 12, 21, 99, 100, 101}

\* The (kind, position) keys of chapter introductions, sections and
\* chapter bodies over these numbers.
ContentKeys ==
    {Unit("intro", p, c, 0) : p \in KeyNumbers, c \in KeyNumbers}
    \cup {Unit("section", p, c, n) : p \in KeyNumbers, c \in KeyNumbers, n \in KeyNumbers}
    \cup {Unit("chapter", p, c, 0) : p \in KeyNumbers, c \in KeyNumbers}

\* The two digits of a number below 100, the tens first.
TwoDigits(n) == <<Digit[(n \div 10) + 1], Digit[(n % 10) + 1]>>

\* part_PP/CC_00_intro.md, part_PP/CC_SS_section.md, part_PP/CC_chapter.md
LayoutPath(u) ==
    <<"part_">> \o TwoDigits(u.part_number) \o <<"/">> \o TwoDigits(u.chapter_number)
    \o (CASE u.kind = "intro"   -> <<"_00_intro.md">>
          [] u.kind = "section" -> <<"_">> \o TwoDigits(u.section_number)
                                   \o <<"_section.md">>
          [] u.kind = "chapter" -> <<"_chapter.md">>)

\* Every key with numbers below 100 is kept at the path of the layout.
PathsAsLaidOut ==
    \A u \in ContentKeys :
        (u.part_number < 100 /\ u.chapter_number < 100 /\ u.section_number < 100)
            => PathOf(u) = LayoutPath(u)

\* Distinct keys are kept at distinct paths.
PathsDistinct == Cardinality({PathOf(u) : u \in ContentKeys}) = Cardinality(ContentKeys)

\* C22: the path of a chapter introduction, section or chapter body is
\* part_PP/CC_00_intro.md, part_PP/CC_SS_section.md or part_PP/CC_chapter.md
\* with two-digit zero-padded numbers, distinct (kind, position) keys have
\* distinct paths, and once save(kind, position, text) has returned the unit
\* exists, holds exactly text, and every other unit exists exactly if it
\* did before.
C22_PathIsKey ==
    /\ PathsAsLaidOut
    /\ PathsDistinct
    /\ (/\ store.call.op = "save"
        /\ ~store.call.raised
        /\ store.call.unit.kind \in LlmKinds)
       => /\ unit_exists(store.fs, store.call.unit)
          /\ store.fs.files[PathOf(store.call.unit)] = store.call.content
          /\ \A v \in StoreUnits \ {store.call.unit} :
                unit_exists(store.fs, v) = unit_exists(store.before, v)

\* C22 witness: the second section of a chapter, absent before, has been
\* saved beside the chapter's first section and its introduction, which
\* were there before.
C22_Witness ==
    /\ store.call.op = "save"
    /\ ~store.call.raised
    /\ store.call.unit = Unit("section", 1, 1, 2)
    /\ ~unit_exists(store.before, Unit("section", 1, 1, 2))
    /\ unit_exists(store.before, Unit("section", 1, 1, 1))
    /\ unit_exists(store.before, Unit("intro", 1, 1, 0))
    /\ ~unit_exists(store.before, Unit("section", 2, 12, 1))
    /\ store.fs.files[PathOf(Unit("section", 1, 1, 2))] = <<"new", " ", "text">>

(* ----------------- part introduction and back cover paths -------------- *)

\* The part numbers the paths are compared for.
PartNumbers == {1, 2, 9, 10, 11, 99}

\* C23: save_part_intro(p, content) writes content to part_PP/_part_intro.md
\* under the root folder, after which part_intro_exists(p) is true, and
\* both collect_markdown_content functions read the part introduction from
\* that path; save_back_cover writes back_cover.md under the root folder,
\* after which back_cover_exists() is true.
C23_PartIntroPath ==
    /\ \A p \in PartNumbers :
          /\ get_part_intro_path(p) = PartFolder(p) \o <<"/">> \o <<"_part_intro.md">>
          /\ part_intro_path(PartFolder(p)) = get_part_intro_path(p)
          /\ part_intro_path_unnumbered(PartFolder(p)) = get_part_intro_path(p)
    /\ get_back_cover_path = <<"back_cover.md">>
    /\ (/\ store.call.op = "save"
        /\ ~store.call.raised
        /\ store.call.unit.kind \in {"part_intro", "back_cover"})
       => /\ unit_exists(store.fs, store.call.unit)
          /\ store.fs.files[PathOf(store.call.unit)] = store.call.content
          /\ store.call.unit.kind = "part_intro" =>
                (PartFolder(store.call.unit.part_number) \o <<"/">> \o <<"_part_intro.md">>)
                    \in DOMAIN store.fs.files

(* ------------------------- save from any store ------------------------- *)

\* The folders a unit's file lies in, the root folder included.
ContainingFolders(u) ==
    IF u.kind = "back_cover" THEN {Root} ELSE {Root, PartFolder(u.part_number)}

\* C24: save of any kind and position succeeds from any state of the store,
\* a missing part folder or a missing root folder included: it creates every
\* missing containing folder, and it writes whether or not the unit exists
\* already, the unit holding the new content afterwards.
C24_SaveAlwaysSucceeds ==
    store.call.op = "save" =>
        /\ ~store.call.raised
        /\ ContainingFolders(store.call.unit) \subseteq store.fs.dirs
        /\ unit_exists(store.fs, store.call.unit)
        /\ store.fs.files[PathOf(store.call.unit)] = store.call.content

(* ---------------------------- plan validation -------------------------- *)

\* The chapters of plan data.
DataChapters(d) ==
    UNION {Range(d.parts[k].chapters) : k \in 1..Len(d.parts)}

\* Whether a required field is missing somewhere in the data: a plan field,
\* a part field, a chapter's name or content (sections in section mode,
\* bullet points in chapter mode), a section field.
FieldMissing(m, d) ==
    \/ PlanKeys \ d.has # {}
    \/ \E k \in 1..Len(d.parts) : PartKeys \ d.parts[k].has # {}
    \/ \E c \in DataChapters(d) :
          \/ "name" \notin c.has
          \/ (IF m = "section" THEN "sections" ELSE "bullet_points") \notin c.has
          \/ m = "section" /\ \E k \in 1..Len(c.sections) :
                                 SectionKeys \ c.sections[k].has # {}

\* Whether a chapter carries both a sections list and flat bullet points.
ChapterMixed(d) ==
    \E c \in DataChapters(d) : {"sections", "bullet_points"} \subseteq c.has

\* C25: loading plan data succeeds exactly when no required field is
\* missing, the language is one of ru, en, de, and no chapter carries both a
\* sections list and flat bullet points; otherwise it fails with a
\* validation error.
C25_PlanValidation ==
    load.called =>
        (load.result = "BookPlan"
            <=> /\ ~FieldMissing(load.mode, load.data)
                /\ load.data.book_language \in Languages
                /\ ~ChapterMixed(load.data))

(* ------------------------------ plan streams --------------------------- *)

\* The texts of the chunks that carry text, in the order of the chunks.
RECURSIVE NonEmptyTexts(_)
NonEmptyTexts(chunks) ==
    IF chunks = <<>> THEN <<>>
    ELSE (IF Head(chunks).text.is_none \/ Len(Head(chunks).text.text) = 0
          THEN <<>> ELSE <<Head(chunks).text.text>>)
         \o NonEmptyTexts(Tail(chunks))

\* The elements of the output before its last.
ButLast(s) == SubSeq(s, 1, Len(s) - 1)

\* One text after the other.
RECURSIVE Concatenated(_)
Concatenated(texts) ==
    IF texts = <<>> THEN <<>> ELSE Head(texts) \o Concatenated(Tail(texts))

\* C26: a plan stream yields the text of each non-empty chunk in arrival
\* order; once the backend's stream has completed it yields exactly one
\* completion element ("__DONE__", final_text, cost), as its last element,
\* where final_text is the concatenation of all text yielded before it and
\* cost is the estimate for the last chunk's usage, 0 when there is no
\* usage; no text element follows the completion element.
C26_StreamCompletion ==
    stream.called =>
        LET y == stream.yielded
            consumed == SubSeq(stream.response, 1, stream.at)
            texts == IF stream.state = "finished" THEN ButLast(y) ELSE y
        IN  /\ \A k \in 1..Len(texts) : texts[k].kind = "text"
            /\ [k \in 1..Len(texts) |-> texts[k].text] = NonEmptyTexts(consumed)
            /\ stream.state = "finished" =>
                  /\ stream.at = Len(stream.response)
                  /\ y # <<>>
                  /\ y[Len(y)].kind = "__DONE__"
                  /\ y[Len(y)].text =
                        Concatenated([k \in 1..Len(texts) |-> texts[k].text])
                  /\ y[Len(y)].cost =
                        (IF stream.response = <<>> THEN 0
                         ELSE IF stream.response[Len(stream.response)].usage_metadata.is_none
                         THEN 0
                         ELSE ExpectedCost(
                                stream.response[Len(stream.response)].usage_metadata.usage))

\* C26 witness: a stream of three chunks, the middle one without text, the
\* last one with a usage of the long-context tier, has completed: two texts
\* were yielded, then the completion element with both texts and that cost.
C26_Witness ==
    /\ stream.called
    /\ stream.state = "finished"
    /\ Len(stream.response) = 3
    /\ stream.response[2].text.is_none
    /\ Len(stream.yielded) = 3
    /\ stream.yielded[1].text # stream.yielded[2].text
    /\ stream.yielded[3].text = stream.yielded[1].text \o stream.yielded[2].text
    /\ stream.response[1].usage_metadata.is_none
    /\ stream.yielded[3].cost = ExpectedCost(Usage(200001, 10, 5))

(* ------------------ part numbers of introductions and chapters --------- *)

\* Whether text begins with "# <number>. <name>".
NumberedHeading(text, number, name) ==
    LET heading == <<"#", " ">> \o Str(number) \o <<".", " ">> \o name
    IN  Len(text) >= Len(heading) /\ SubSeq(text, 1, Len(heading)) = heading

\* C27: in the chapter-based executor every chapter spec carries the position
\* of the part its chapter belongs to, parts without chapters counted, which
\* is the number the part's introduction is saved under: a saved part
\* introduction holds the introduction of the part at that position, and a
\* saved chapter lies in the folder of the part it belongs to, next to that
\* part's introduction.
C27_PartNumbersAgree ==
    mode = "chapter" =>
        /\ \A i \in 1..Len(chapter_specs) :
              LET n == chapter_specs[i].part_number
              IN  /\ n \in 1..Len(book_plan.parts)
                  /\ chapter_specs[i].part = book_plan.parts[n]
                  /\ \E c \in 1..Len(book_plan.parts[n].chapters) :
                        book_plan.parts[n].chapters[c] = chapter_specs[i].chapter
        /\ \A k \in 1..Len(save_log) :
              LET u == save_log[k]
                  n == u.part_number
              IN  /\ u.kind = "part_intro" => SavedText(u) = ExpectedPartIntro(n)
                  /\ u.kind = "chapter" =>
                        /\ n \in 1..Len(book_plan.parts)
                        /\ \E c \in 1..Len(book_plan.parts[n].chapters) :
                              NumberedHeading(SavedText(u), u.chapter_number,
                                              book_plan.parts[n].chapters[c].name)
                        /\ SubSeq(PathOf(u), 1, Len(PartFolder(n)))
                              = SubSeq(get_part_intro_path(n), 1, Len(PartFolder(n)))

\* C27 witness: a completed chapter-mode run over a plan whose first part has
\* no chapters has saved both part introductions and, under part 2, the
\* first chapter of the book.
C27_Witness ==
    /\ mode = "chapter"
    /\ pc = "done"
    /\ Len(book_plan.parts) = 2
    /\ Len(book_plan.parts[1].chapters) = 0
    /\ Unit("part_intro", 1, 0, 0) \in Range(save_log)
    /\ Unit("part_intro", 2, 0, 0) \in Range(save_log)
    /\ Unit("chapter", 2, 1, 0) \in Range(save_log)
    /\ get_chapter_path(2, 1) \in DOMAIN fs.files

(* ----------------------- the order of the assembly --------------------- *)

\* The files of chapter g of part p, in document order: the introduction and
\* sections 1..k in section mode, the chapter body in chapter mode.
ChapterFiles(m, plan, p, c) ==
    LET g == GlobalNumber(plan, p, c)
    IN  IF m = "section"
        THEN <<LayoutPath(Unit("intro", p, g, 0))>>
             \o [n \in 1..Len(plan.parts[p].chapters[c].sections) |->
                   LayoutPath(Unit("section", p, g, n))]
        ELSE <<LayoutPath(Unit("chapter", p, g, 0))>>

\* The files of a fully generated book in generation document order: parts
\* ascending, chapters ascending within a part.
DocumentOrder(m, plan) ==
    Join([p \in 1..Len(plan.parts) |->
            Join([c \in 1..Len(plan.parts[p].chapters) |-> ChapterFiles(m, plan, p, c)],
                 <<>>)],
         <<>>)

IsPrefix(s, t) == Len(s) <= Len(t) /\ SubSeq(t, 1, Len(s)) = s

\* Whether a piece of the assembled text is the text of a chapter file: not
\* a separator and not a part introduction.
IsFilePiece(piece) ==
    /\ piece # <<"\n", "\n">>
    /\ \A p \in 1..Len(ebook.plan.parts) :
          piece # part_intro_content(ebook.plan.book_language, p, ebook.plan.parts[p])

\* C28: for a fully generated book (part, chapter and section numbers below
\* 100) collect_markdown_content reads the chapter files in generation
\* document order - parts ascending, chapters ascending by number within a
\* part, a chapter's introduction before its sections 1..k - every chapter
\* introduction, section and chapter body exactly once, no file whose name
\* starts with "_" among them, and the assembled text holds their texts in
\* that order.
C28_AssemblyOrder ==
    ebook.called =>
        LET expected == DocumentOrder(ebook.mode, ebook.plan)
            pieces == SelectSeq(ebook.full_content, IsFilePiece)
        IN  /\ IsPrefix(ebook.read, expected)
            /\ \A k \in 1..Len(ebook.read) :
                  /\ Head(NameOf(ebook.read[k])) \in Range(Digit)
                  /\ Occurrences(ebook.read, ebook.read[k]) = 1
            /\ Len(pieces) = Len(ebook.read)
            /\ \A k \in 1..Len(pieces) :
                  pieces[k] = shift_headers(ebook.book.files[ebook.read[k]])
            /\ ebook.phase = "done" =>
                  /\ ebook.read = expected
                  /\ ebook.result = Join(ebook.full_content, <<>>)
                  /\ \A u \in Range(UnitsOf(ebook.mode, ebook.plan)) :
                        u.kind \in LlmKinds => Occurrences(ebook.read, PathOf(u)) = 1

\* C28 witness: the book of a section-mode plan with chapters 1 to 9 in part
\* 1 and chapters 10 and 11 in part 2, chapter 11 having eleven sections, has
\* been assembled: chapter 10's introduction was read right after chapter
\* 9's, and section 11 of chapter 11 last, after its section 10.
C28_Witness ==
    /\ ebook.called
    /\ ebook.phase = "done"
    /\ ebook.mode = "section"
    /\ Len(ebook.read) = 24
    /\ ebook.read[9] = <<"part_", "0", "1", "/", "0", "9", "_00_intro.md">>
    /\ ebook.read[10] = <<"part_", "0", "2", "/", "1", "0", "_00_intro.md">>
    /\ ebook.read[15] = <<"part_", "0", "2", "/", "1", "1", "_", "0", "2", "_section.md">>
    /\ ebook.read[23] = <<"part_", "0", "2", "/", "1", "1", "_", "1", "0", "_section.md">>
    /\ ebook.read[24] = <<"part_", "0", "2", "/", "1", "1", "_", "1", "1", "_section.md">>

(* ------------------------------- C29 ----------------------------------- *)

ValidKeys == {f \in Mp3Keys : mp3.wav_files[f] = "valid"}

\* The steps done for a file in a run are the first steps of download,
\* convert, upload, unlink, in that order; the local WAV is deleted when the
\* MP3 is in the output bucket.
StepsInOrder ==
    \A f \in ValidKeys :
        /\ IsPrefix(mp3.log[f], Mp3Steps)
        /\ Len(mp3.log[f]) = 4 => f \in mp3.out_bucket /\ f \notin mp3.local_wav

\* An MP3 that was in the output bucket before the run had no step in it.
BucketSkipped ==
    \A f \in ValidKeys :
        (f \in mp3.out_bucket /\ Len(mp3.log[f]) < 3) => mp3.log[f] = <<>>

\* Every key was looked at when the run is through, whatever failed.
AllKeysVisited ==
    mp3.phase = "finished" => mp3.visited = Mp3Keys

\* The run after the one with failures puts the MP3 of every file that had
\* a failing step into the output bucket.
RerunCompletes ==
    (mp3.run = 2 /\ mp3.phase = "finished") =>
        \A f \in ValidKeys : mp3.failed_at[f] # "none" => f \in mp3.out_bucket

\* C29: WavToMp3Converter handles each WAV key as download, convert, upload,
\* deletion of the local WAV (only after the upload), skips the keys whose
\* MP3 is in the output bucket, goes on with the other files after a failure
\* of one, and a second convert_book without failures leaves the MP3 of a
\* file that failed before in the output bucket.
C29_ConvertAndResume ==
    mp3.called =>
        /\ StepsInOrder
        /\ BucketSkipped
        /\ AllKeysVisited
        /\ RerunCompletes

\* The part of C29 that the converter keeps: order, skipping and isolation.
C29_OrderSkipIsolation ==
    mp3.called => StepsInOrder /\ BucketSkipped /\ AllKeysVisited

\* A second run is through after the first met a failure and went on.
C29_RerunDone ==
    /\ mp3.called /\ mp3.run = 2 /\ mp3.phase = "finished"
    /\ \E f \in ValidKeys : mp3.failed_at[f] = "download" /\ f \in mp3.out_bucket
    /\ \E f \in ValidKeys : mp3.failed_at[f] = "none" /\ mp3.log[f] = <<>>
                             /\ ~(f \in mp3.out_bucket0)

\* The second run is through and a file whose upload failed in the first
\* has no MP3 in the output bucket.
C29_UploadFailureStays ==
    /\ mp3.called /\ mp3.run = 2 /\ mp3.phase = "finished"
    /\ \E f \in ValidKeys : mp3.failed_at[f] = "upload" /\ f \notin mp3.out_bucket

(* ------------------------------- C30 ----------------------------------- *)

\* No file is submitted twice, and every file is submitted once the loop of
\* submissions is through.
SubmittedOnce ==
    \A f \in FileIds :
        /\ tts_io.submitted[f] <= 1
        /\ main_pc \in {"wait", "finished"} => tts_io.submitted[f] = 1

\* The backend is called at most once for a file, and not at all for a file
\* whose artifact was there when the task looked for it.
CalledOnceIfAbsent ==
    \A f \in FileIds :
        /\ tts_io.called[f] <= 1
        /\ tts_io.existed[f] => tts_io.called[f] = 0

\* Two files have two artifact paths.
ArtifactPathsDistinct ==
    \A f, g \in FileIds : f # g => output_path(f) # output_path(g)

\* What was written under a file's artifact path was made from the text of
\* that file, read by its own task.
OwnTextOnly ==
    \A w \in tts_io.wav :
        \A f \in FileIds : w[1] = output_path(f) => w[2] = FileText(f)

\* C30: in one run of TTSGenerator.process_book, whatever the thread count
\* and the interleaving, each markdown file is submitted exactly once, the
\* backend is called at most once per file and never for a file whose
\* artifact exists when it is looked for, distinct files have distinct
\* artifact paths, and an artifact is made from the text of its own file.
C30_TasksIndependent ==
    main_pc # "idle" =>
        /\ SubmittedOnce
        /\ CalledOnceIfAbsent
        /\ ArtifactPathsDistinct
        /\ OwnTextOnly

\* The part of C30 that holds with an S3 bucket as well.
C30_OnceAndOwnText ==
    main_pc # "idle" =>
        /\ SubmittedOnce
        /\ \A f \in FileIds : tts_io.called[f] <= 1
        /\ ArtifactPathsDistinct
        /\ OwnTextOnly

\* With an S3 bucket: the object of a file was there, head_object raised,
\* and the backend was called for the file.
C30_CalledThoughThere ==
    \E f \in FileIds :
        /\ tts_io.s3_bucket
        /\ tts_io.existed[f] /\ tts_io.head[f] = "error"
        /\ tts_io.called[f] = 1

\* A run over three files in two threads is through: one artifact was there
\* and was skipped, two were made, each from its own text, under two paths
\* of the same file name.
C30_ThreeFilesDone ==
    /\ main_pc = "finished" /\ Len(files_to_process) = 3
    /\ tts_io.existed[2] /\ tts_io.called[2] = 0
    /\ <<output_path(1), FileText(1)>> \in tts_io.wav
    /\ <<output_path(3), FileText(3)>> \in tts_io.wav
    /\ output_path(1)[3] = output_path(3)[3]

====
